---- MODULE Spec2Model ----
(***************************************************************************)
(* Model of the checkers game engine of src/fun/checkers.py:               *)
(* CheckersBoard (square addressing and piece storage), CheckersMove (move *)
(* enumeration with simulate/undo, move execution) and Checkers /          *)
(* EnglishDraughts (the game state machine).                               *)
(*                                                                         *)
(* A call that raises CheckersError is modelled by a result record with    *)
(* ok = FALSE that carries the state the call left behind.                 *)
(***************************************************************************)
EXTENDS Integers, Sequences, FiniteSets, TLC

VARIABLES pieces,    \* CheckersBoard._pieces : dict rnum -> piece
          kur,       \* Checkers._kur         : color -> list of captured pieces
          history,   \* Checkers._history     : list of events and moves
          state,     \* Checkers._state
          move_num,  \* Checkers._move_num
          turn,      \* Checkers._turn
          eog,       \* Checkers._eog
          winner,    \* Checkers._winner
          last,      \* the last call made by the caller and how it returned
          board,     \* a CheckersBoard the caller built: its size fields
          ret,       \* what the last call on that board returned or raised
          pegs,        \* TowerOfHanoi.pegs : the three pegs A, B, C
          numOfMoves,  \* TowerOfHanoi.numOfMoves
          frames,      \* the calls of solve_r in progress, innermost last
          phase,       \* where the caller of solve() stands
          config       \* CheckersCli.config['bot'] : color -> bot or None

(* The variables of the Tower of Hanoi puzzle, a program of its own. *)
hanoi_vars == <<pegs, numOfMoves, frames, phase>>

vars == <<pieces, kur, history, state, move_num, turn, eog, winner, last,
          board, ret, hanoi_vars, config>>

-----------------------------------------------------------------------------
(* Bounds of the model                                                     *)

MaxPieces  == 5     \* pieces a caller adds by hand before a game
MaxHistory == 3     \* history entries after which no further call is made
MaxSize    == 10    \* largest size a caller asks of a CheckersBoard
MaxNota    == 3     \* characters of the notation strings a caller types

-----------------------------------------------------------------------------
(* Enumerations                                                            *)

BLACK == "BLACK"
WHITE == "WHITE"
Color == {BLACK, WHITE}

MAN  == "MAN"
KING == "KING"
Caste == {MAN, KING}

NOT_STARTED == "NOT_STARTED"
IN_PLAY     == "IN_PLAY"
GAME_OVER   == "GAME_OVER"

SIMPLE == "-"
JUMP   == "x"

NO_EOG == "NO_EOG"
ABORT  == "ABORT"
RESIGN == "RESIGN"
DEFEAT == "DEFEAT"
DRAW   == "DRAW"

None == "None"

CheckersPiece(color, caste, ident) ==
  [color |-> color, caste |-> caste, ident |-> ident]

foe(piece) == IF piece.color = BLACK THEN WHITE ELSE BLACK

(* Faulty variant of opposite_color: a color is its own opponent. *)
opposite_color_same(color) == color

opposite_color(color) == IF color = BLACK THEN WHITE ELSE BLACK

(* Results of calls that may raise CheckersError *)
(* F applied to the value of v, which is evaluated once: the assignment    *)
(* of a call's result to a local variable.                                 *)
With(v, F(_)) == CHOOSE y \in { F(x) : x \in {v} } : TRUE

Ok(v)      == [ok |-> TRUE, val |-> v]
Raise(msg) == [ok |-> FALSE, err |-> msg]

(* An exception of another class than CheckersError. *)
Throw(exc, msg) == [ok |-> FALSE, exc |-> exc, err |-> msg]

-----------------------------------------------------------------------------
(* CheckersBoard: geometry                                                 *)

StdSize == 8

size == IF StdSize % 2 = 1 THEN StdSize + 1 ELSE StdSize

dark_squares_per_row == size \div 2

rnum_min == 1

rnum_max == dark_squares_per_row * size

(* Faulty variant of kings_row: the two rows exchanged. *)
kings_row_swapped(color) == IF color = BLACK THEN 0 ELSE size - 1

kings_row(color) == IF color = BLACK THEN size - 1 ELSE 0

(* Faulty variant of _rowadj: the same adjustment on every row. *)
rowadj_flat(row) == 1

rowadj(row) == 1 + (row % 2)

(* Faulty variant of is_dark_square: every square passes for dark. *)
is_dark_square_any(row, col) == TRUE

is_dark_square(row, col) ==
  IF row % 2 = 0 THEN col % 2 = 1 ELSE col % 2 = 0

is_pos_on_board(row, col) ==
  (row >= 0) /\ (row < size) /\ (col >= 0) /\ (col < size)

chk_rnum(n) == ~(n < rnum_min \/ n > rnum_max)

rnum(row, col) ==
  IF ~is_pos_on_board(row, col) THEN Raise("off-board position")
  ELSE IF ~is_dark_square(row, col) THEN Raise("not a reachable square")
  ELSE Ok((row * dark_squares_per_row) + ((col + rowadj(row)) \div 2))

rowcol(n) ==
  IF ~chk_rnum(n) THEN Raise("invalid reachable number")
  ELSE LET row  == (n - 1) \div dark_squares_per_row
           col0 == n - row * dark_squares_per_row
           col  == 2 * col0 - rowadj(row)
       IN IF ~is_pos_on_board(row, col) THEN Raise("BUG")
          ELSE Ok(<<row, col>>)

-----------------------------------------------------------------------------
(* CheckersBoard of any size: the fields the initializer computes and the  *)
(* conversions between row,column positions and reachable numbers.         *)

(* The initializer reads BoardDefaultSize, an attribute of the class, as a  *)
(* global name: for a size of 0 or less it raises NameError and no board   *)
(* is built.                                                               *)
CheckersBoard_init(sz) ==
  IF sz <= 0 THEN Throw("NameError", "name 'BoardDefaultSize' is not defined")
  ELSE LET s == IF sz % 2 = 1 THEN sz + 1 ELSE sz
       IN Ok([size                 |-> s,
              dark_squares_per_row |-> s \div 2,
              rnum_min             |-> 1,
              rnum_max             |-> (s \div 2) * s])

CheckersBoard_is_pos_on_board(b, row, col) ==
  (row >= 0) /\ (row < b.size) /\ (col >= 0) /\ (col < b.size)

CheckersBoard_chk_rnum(b, n) == ~(n < b.rnum_min \/ n > b.rnum_max)

CheckersBoard_rnum(b, row, col) ==
  IF ~CheckersBoard_is_pos_on_board(b, row, col)
  THEN Raise("off-board position")
  ELSE IF ~is_dark_square(row, col) THEN Raise("not a reachable square")
  ELSE Ok((row * b.dark_squares_per_row) + ((col + rowadj(row)) \div 2))

CheckersBoard_rowcol(b, n) ==
  IF ~CheckersBoard_chk_rnum(b, n) THEN Raise("invalid reachable number")
  ELSE LET row  == (n - 1) \div b.dark_squares_per_row
           col0 == n - row * b.dark_squares_per_row
           col  == 2 * col0 - rowadj(row)
       IN IF ~CheckersBoard_is_pos_on_board(b, row, col) THEN Raise("BUG")
          ELSE Ok(<<row, col>>)

-----------------------------------------------------------------------------
(* CheckersBoard: piece storage.  pcs is the _pieces dictionary, a         *)
(* function whose domain is the set of occupied squares.                   *)

Pop(pcs, n) == [r \in (DOMAIN pcs) \ {n} |-> pcs[r]]

Put(pcs, n, piece) ==
  [r \in (DOMAIN pcs) \cup {n} |-> IF r = n THEN piece ELSE pcs[r]]

(* Faulty variant of is_square_occupied: every square passes for empty. *)
is_square_occupied_never(pcs, n) == Ok(FALSE)

is_square_occupied(pcs, n) ==
  IF ~chk_rnum(n) THEN Raise("invalid reachable number")
  ELSE Ok(n \in DOMAIN pcs)

is_square_empty(pcs, n) ==
  IF ~chk_rnum(n) THEN Raise("invalid reachable number")
  ELSE Ok(~(n \in DOMAIN pcs))

at(pcs, n) ==
  LET e == is_square_empty(pcs, n)
  IN IF ~e.ok THEN e
     ELSE IF e.val THEN Raise("no piece found")
     ELSE Ok(pcs[n])

(* The mutators return ok and the dictionary they leave. *)
Done(pcs)        == [ok |-> TRUE, pieces |-> pcs]
Fail(pcs, msg)   == [ok |-> FALSE, pieces |-> pcs, err |-> msg]

add_new_piece(pcs, n, color, caste) ==
  IF ~chk_rnum(n) THEN Fail(pcs, "invalid reachable number")
  ELSE IF n \in DOMAIN pcs THEN Fail(pcs, "occupies square")
  ELSE Done(Put(pcs, n, CheckersPiece(color, caste, n)))

remove_piece(pcs, n) ==
  IF ~chk_rnum(n) THEN Fail(pcs, "invalid reachable number")
  ELSE IF ~(n \in DOMAIN pcs) THEN Fail(pcs, "no piece found")
  ELSE [ok |-> TRUE, pieces |-> Pop(pcs, n), piece |-> pcs[n]]

(* Faulty variant of replace_piece: the piece goes on the square whatever  *)
(* stands there.                                                          *)
replace_piece_overwrites(pcs, n, piece) ==
  IF ~chk_rnum(n) THEN Fail(pcs, "invalid reachable number")
  ELSE Done(Put(pcs, n, piece))

replace_piece(pcs, n, piece) ==
  IF ~chk_rnum(n) THEN Fail(pcs, "invalid reachable number")
  ELSE IF n \in DOMAIN pcs THEN Fail(pcs, "occupies square")
  ELSE Done(Put(pcs, n, piece))

(* Faulty variant of move_piece: the piece is left on the source square too. *)
move_piece_copies(pcs, rnum_from, rnum_to) ==
  IF ~chk_rnum(rnum_from) \/ ~chk_rnum(rnum_to)
    THEN Fail(pcs, "invalid reachable number")
  ELSE IF ~(rnum_from \in DOMAIN pcs) THEN Fail(pcs, "no piece found")
  ELSE IF rnum_to \in DOMAIN pcs THEN Fail(pcs, "occupies square")
  ELSE Done(Put(pcs, rnum_to, pcs[rnum_from]))

move_piece(pcs, rnum_from, rnum_to) ==
  IF ~chk_rnum(rnum_from) \/ ~chk_rnum(rnum_to)
    THEN Fail(pcs, "invalid reachable number")
  ELSE IF ~(rnum_from \in DOMAIN pcs) THEN Fail(pcs, "no piece found")
  ELSE IF rnum_to \in DOMAIN pcs THEN Fail(pcs, "occupies square")
  ELSE Done(Put(Pop(pcs, rnum_from), rnum_to, pcs[rnum_from]))

promote_piece(pcs, n, only_kings_row) ==
  IF ~chk_rnum(n) THEN Fail(pcs, "invalid reachable number")
  ELSE IF ~(n \in DOMAIN pcs) THEN Fail(pcs, "no piece found")
  ELSE IF only_kings_row /\ rowcol(n).val[1] # kings_row(pcs[n].color)
    THEN Fail(pcs, "piece not on kings row")
  ELSE Done([pcs EXCEPT ![n].caste = KING])

demote_piece(pcs, n) ==
  IF ~chk_rnum(n) THEN Fail(pcs, "invalid reachable number")
  ELSE IF ~(n \in DOMAIN pcs) THEN Fail(pcs, "no piece found")
  ELSE Done([pcs EXCEPT ![n].caste = MAN])

(* Faulty variant of promotable: no piece is ever found promotable. *)
promotable_never(pcs, n) == Ok(FALSE)

promotable(pcs, n) ==
  IF ~chk_rnum(n) THEN Raise("invalid reachable number")
  ELSE IF ~(n \in DOMAIN pcs) THEN Raise("no piece found")
  ELSE IF pcs[n].caste # MAN THEN Ok(FALSE)
  ELSE Ok(rowcol(n).val[1] = kings_row(pcs[n].color))

numof_black_pieces(pcs) == Cardinality({r \in DOMAIN pcs : pcs[r].color = BLACK})

numof_white_pieces(pcs) == Cardinality({r \in DOMAIN pcs : pcs[r].color = WHITE})

-----------------------------------------------------------------------------
(* CheckersMove: move enumeration                                          *)

(* Faulty variant of get_move_pattern: a man is given the king's pattern. *)
get_move_pattern_all_ways(piece) ==
  << <<-1, -1>>, <<-1, 1>>, <<1, -1>>, <<1, 1>> >>

get_move_pattern(piece) ==
  IF piece.caste = KING THEN << <<-1, -1>>, <<-1, 1>>, <<1, -1>>, <<1, 1>> >>
  ELSE IF piece.color = BLACK THEN << <<1, -1>>, <<1, 1>> >>
  ELSE IF piece.color = WHITE THEN << <<-1, -1>>, <<-1, 1>> >>
  ELSE << >>

(* Faulty variant of join: the path prepended is forgotten. *)
join_forgets_path0(path0, path1) == Ok(path1)

join(path0, path1) ==
  IF Len(path0) = 0 THEN Ok(path1)
  ELSE IF Len(path1) = 0 THEN Ok(path0)
  ELSE IF path0[Len(path0)] = path1[1] THEN Ok(path0 \o Tail(path1))
  ELSE Raise("path0 != path1")

(* The virtual move of find_move_paths: the piece on rn jumps to rnum_jmp, *)
(* the piece on rnum_adj is taken off, and the mover is promoted when it   *)
(* is promotable on its landing square.                                    *)
(* Faulty variant of the virtual move: the piece jumped is not taken off   *)
(* the board but set down on the square the mover left, so that a nested   *)
(* level of the search has as many opposing pieces as the level above.     *)
virtual_move_sets_captured_down(pcs, rn, rnum_adj, rnum_jmp) ==
  LET mv == move_piece(pcs, rn, rnum_jmp)
      rm == remove_piece(mv.pieces, rnum_adj)
  IN IF ~mv.ok THEN mv
     ELSE IF ~rm.ok THEN rm
     ELSE [ok |-> TRUE, pieces |-> Put(rm.pieces, rn, rm.piece),
           piece_cap |-> rm.piece, undo_promo |-> FALSE]

virtual_move(pcs, rn, rnum_adj, rnum_jmp) ==
  LET mv == move_piece(pcs, rn, rnum_jmp)
      rm == remove_piece(mv.pieces, rnum_adj)
      pb == promotable(rm.pieces, rnum_jmp)
      pr == promote_piece(rm.pieces, rnum_jmp, TRUE)
  IN IF ~mv.ok THEN mv
     ELSE IF ~rm.ok THEN rm
     ELSE IF ~pb.ok THEN Fail(rm.pieces, pb.err)
     ELSE IF pb.val
       THEN IF ~pr.ok THEN pr
            ELSE [ok |-> TRUE, pieces |-> pr.pieces,
                  piece_cap |-> rm.piece, undo_promo |-> TRUE]
     ELSE [ok |-> TRUE, pieces |-> rm.pieces,
           piece_cap |-> rm.piece, undo_promo |-> FALSE]

(* Faulty variant of undo_virtual_move: the promotion is not reverted. *)
undo_virtual_move_keeps_king(pcs, rn, rnum_adj, rnum_jmp, piece_cap, undo_promo) ==
  LET rp == replace_piece(pcs, rnum_adj, piece_cap)
      mv == move_piece(rp.pieces, rnum_jmp, rn)
  IN IF ~rp.ok THEN rp ELSE mv

(* The undo of the virtual move. *)
undo_virtual_move(pcs, rn, rnum_adj, rnum_jmp, piece_cap, undo_promo) ==
  LET rp == replace_piece(pcs, rnum_adj, piece_cap)
      mv == move_piece(rp.pieces, rnum_jmp, rn)
      dm == demote_piece(mv.pieces, rn)
  IN IF ~rp.ok THEN rp
     ELSE IF ~mv.ok THEN mv
     ELSE IF undo_promo THEN dm
     ELSE mv

Found(pcs, paths)  == [raised |-> FALSE, paths |-> paths, pieces |-> pcs]
Thrown(pcs, paths) == [raised |-> TRUE,  paths |-> paths, pieces |-> pcs]

(* Faulty variant of the loop over paths_move: a jump that has a           *)
(* continuation is replaced by its continuations, so that only chains      *)
(* that cannot be extended are kept.                                       *)
with_continuations_maximal(paths1, joined) ==
  IF Len(joined) = 0 THEN paths1
  ELSE SubSeq(paths1, 1, Len(paths1) - 1) \o joined

(* The loop over paths_move: the jump path_jmp, already the last of        *)
(* paths1, is followed by its join with each continuation.                 *)
with_continuations(paths1, joined) == paths1 \o joined

RECURSIVE find_move_paths(_, _, _)
RECURSIVE scan_deltas(_, _, _, _, _, _, _)

(* The loop over the deltas of find_move_paths, from the k-th delta on.    *)
(* color is the color of the piece found on rn when the search began.      *)
scan_deltas(pcs, rn, color, jumps_only, deltas, k, paths) ==
  IF k > Len(deltas) THEN Found(pcs, paths)
  ELSE
    LET rc      == rowcol(rn).val
        row_adj == rc[1] + deltas[k][1]
        col_adj == rc[2] + deltas[k][2]
        row_jmp == row_adj + deltas[k][1]
        col_jmp == col_adj + deltas[k][2]
        next    == scan_deltas(pcs, rn, color, jumps_only, deltas, k + 1, paths)
    IN
    IF ~is_pos_on_board(row_adj, col_adj) THEN next
    ELSE
      LET rnum_adj == rnum(row_adj, col_adj).val IN
      IF is_square_occupied(pcs, rnum_adj).val
      THEN
        IF /\ opposite_color(color) = pcs[rnum_adj].color
           /\ is_pos_on_board(row_jmp, col_jmp)
           /\ is_square_empty(pcs, rnum(row_jmp, col_jmp).val).val
        THEN
          LET rnum_jmp == rnum(row_jmp, col_jmp).val
              path_jmp == <<rn, JUMP, rnum_jmp>>
              paths1   == Append(paths, path_jmp)
          IN
          With(virtual_move(pcs, rn, rnum_adj, rnum_jmp), LAMBDA vm :
            IF ~vm.ok THEN Thrown(vm.pieces, paths1)
            ELSE
            With(find_move_paths(vm.pieces, rnum_jmp, TRUE), LAMBDA sub :
              LET joins  == [i \in 1..Len(sub.paths) |->
                               join(path_jmp, sub.paths[i])]
                  paths2 == with_continuations(
                              paths1, [i \in 1..Len(sub.paths) |-> joins[i].val])
              IN
              IF sub.raised THEN Thrown(sub.pieces, paths1)
              ELSE IF \E i \in 1..Len(sub.paths) : ~joins[i].ok
                THEN Thrown(sub.pieces, paths1)
              ELSE
              With(undo_virtual_move(sub.pieces, rn, rnum_adj, rnum_jmp,
                                     vm.piece_cap, vm.undo_promo), LAMBDA un :
                IF ~un.ok THEN Thrown(un.pieces, paths2)
                ELSE scan_deltas(un.pieces, rn, color, jumps_only, deltas,
                                 k + 1, paths2))))
        ELSE next
      ELSE IF ~jumps_only
        THEN scan_deltas(pcs, rn, color, jumps_only, deltas, k + 1,
                         Append(paths, <<rn, SIMPLE, rnum_adj>>))
      ELSE next

find_move_paths(pcs, rn, jumps_only) ==
  IF ~at(pcs, rn).ok THEN Found(pcs, << >>)
  ELSE scan_deltas(pcs, rn, pcs[rn].color, jumps_only,
                   get_move_pattern(pcs[rn]), 1, << >>)

(* Faulty variant of the loop of has_a_move: jumps are not looked for. *)
has_a_move_from_simple_only(pcs, rn, deltas, k) ==
  \E i \in k..Len(deltas) :
    LET rc == rowcol(rn).val
    IN /\ is_pos_on_board(rc[1] + deltas[i][1], rc[2] + deltas[i][2])
       /\ is_square_empty(pcs, rnum(rc[1] + deltas[i][1],
                                    rc[2] + deltas[i][2]).val).val

RECURSIVE has_a_move_from(_, _, _, _)

(* The loop over the deltas of has_a_move, from the k-th delta on. *)
has_a_move_from(pcs, rn, deltas, k) ==
  IF k > Len(deltas) THEN FALSE
  ELSE
    LET rc      == rowcol(rn).val
        row_adj == rc[1] + deltas[k][1]
        col_adj == rc[2] + deltas[k][2]
        row_jmp == row_adj + deltas[k][1]
        col_jmp == col_adj + deltas[k][2]
        next    == has_a_move_from(pcs, rn, deltas, k + 1)
    IN
    IF ~is_pos_on_board(row_adj, col_adj) THEN next
    ELSE
      LET rnum_adj == rnum(row_adj, col_adj).val IN
      IF is_square_empty(pcs, rnum_adj).val THEN TRUE
      ELSE IF /\ foe(pcs[rn]) = pcs[rnum_adj].color
              /\ is_pos_on_board(row_jmp, col_jmp)
              /\ is_square_empty(pcs, rnum(row_jmp, col_jmp).val).val
        THEN TRUE
      ELSE next

has_a_move(pcs, rn) ==
  IF ~at(pcs, rn).ok THEN FALSE
  ELSE has_a_move_from(pcs, rn, get_move_pattern(pcs[rn]), 1)

jumped_square(rnum0, rnum1) ==
  LET rc0 == rowcol(rnum0)
      rc1 == rowcol(rnum1)
      rowj == IF rc1.val[1] > rc0.val[1] THEN rc1.val[1] - 1 ELSE rc1.val[1] + 1
      colj == IF rc1.val[2] > rc0.val[2] THEN rc1.val[2] - 1 ELSE rc1.val[2] + 1
  IN IF ~rc0.ok THEN rc0
     ELSE IF ~rc1.ok THEN rc1
     ELSE rnum(rowj, colj)

-----------------------------------------------------------------------------
(* CheckersMove: notation                                                  *)

Digits == <<"0", "1", "2", "3", "4", "5", "6", "7", "8", "9">>

RECURSIVE str(_)

(* Python's str() of a non-negative integer, one string per character. *)
str(n) == IF n < 10 THEN <<Digits[n + 1]>>
          ELSE str(n \div 10) \o <<Digits[(n % 10) + 1]>>

RECURSIVE path_to_nota_from(_, _)

path_to_nota_from(path, i) ==
  IF i > Len(path) THEN << >>
  ELSE (IF i % 2 = 1 THEN str(path[i]) ELSE <<path[i]>>)
       \o path_to_nota_from(path, i + 1)

(* ''.join(f"{v}" for v in path): squares stand at the odd places of a     *)
(* path and move operators at the even places.                             *)
path_to_nota(path) == path_to_nota_from(path, 1)

(* The character classes of token_specification.  A notation string is a  *)
(* sequence of one-character strings.                                      *)
RNUM_chars == {"1", "2", "3", "4", "5", "6", "7", "8", "9"}
MOP_chars  == {SIMPLE, JUMP}
SKIP_chars == {" ", "\t"}

(* '.' matches every character but the newline, which no alternative of    *)
(* tok_regex matches: finditer passes over it.                             *)
Unmatched_chars == {"\n"}

(* A token; its column is left out, nothing reads it. *)
Token(type, value) == [type |-> type, value |-> value]

RECURSIVE int(_)

(* Python's int() of a string of decimal digits. *)
int(digits) ==
  IF Len(digits) = 0 THEN 0
  ELSE 10 * int(SubSeq(digits, 1, Len(digits) - 1))
       + ((CHOOSE k \in DOMAIN Digits : Digits[k] = digits[Len(digits)]) - 1)

RECURSIVE match_end(_, _, _)

(* The last index of the longest run of characters of class chars that     *)
(* begins at index i of nota.                                              *)
match_end(nota, i, chars) ==
  IF i < Len(nota) /\ nota[i + 1] \in chars
  THEN match_end(nota, i + 1, chars)
  ELSE i

RECURSIVE token_generator(_, _, _)

(* The tokens the generator yields from index i of nota on, after those of *)
(* tokens; a MISMATCH ends it with RuntimeError.                           *)
token_generator(nota, i, tokens) ==
  IF i > Len(nota) THEN Ok(tokens)
  ELSE IF nota[i] \in RNUM_chars
    THEN With(match_end(nota, i, RNUM_chars), LAMBDA j :
           token_generator(nota, j + 1,
             Append(tokens, Token("RNUM", int(SubSeq(nota, i, j))))))
  ELSE IF nota[i] \in MOP_chars
    THEN token_generator(nota, i + 1, Append(tokens, Token("MOP", nota[i])))
  ELSE IF nota[i] \in SKIP_chars
    THEN token_generator(nota, match_end(nota, i, SKIP_chars) + 1, tokens)
  ELSE IF nota[i] \in Unmatched_chars
    THEN token_generator(nota, i + 1, tokens)
  ELSE Throw("RuntimeError", "unexpected token")

tokenize(nota) == token_generator(nota, 1, << >>)

expect == <<"RNUM", "MOP">>

RECURSIVE nota_to_path_from(_, _, _)

(* The loop of nota_to_path over the tokens from the k-th on, and the      *)
(* test of their count after it.                                           *)
nota_to_path_from(tokens, k, path) ==
  IF k > Len(tokens)
  THEN IF Len(tokens) % 2 = 0 THEN Raise("missing last rnum") ELSE Ok(path)
  ELSE IF tokens[k].type = expect[((k - 1) % 2) + 1]
    THEN nota_to_path_from(tokens, k + 1, Append(path, tokens[k].value))
  ELSE Raise(<<"expected", expect[((k - 1) % 2) + 1], "got", tokens[k].type>>)

(* The except clause names RunTimeError, which is not defined: when        *)
(* tokenize raises RuntimeError, matching the clause raises NameError.     *)
nota_to_path(nota) ==
  With(tokenize(nota), LAMBDA t :
    IF ~t.ok THEN Throw("NameError", "name 'RunTimeError' is not defined")
    ELSE nota_to_path_from(t.val, 1, << >>))

-----------------------------------------------------------------------------
(* Checkers: captured pieces and history                                   *)

(* Faulty variant of goto_hell: the piece goes to the list of its captor. *)
goto_hell_to_captor(k, piece) ==
  [k EXCEPT ![opposite_color(piece.color)] = Append(@, piece)]

goto_hell_nowhere(k, piece) == k

goto_hell(k, piece) == [k EXCEPT ![piece.color] = Append(@, piece)]

add_event_to_history(h, event) == Append(h, event)

add_move_to_history_silent(h, trn, mnum, path) == h

add_move_to_history(h, trn, mnum, path) ==
  IF trn = BLACK
    THEN Append(h, <<" ">> \o str(mnum) \o <<".", " ">> \o path_to_nota(path))
  ELSE Append(h, path_to_nota(path))

lower(color) == IF color = BLACK THEN "black" ELSE "white"

-----------------------------------------------------------------------------
(* CheckersMove.execute_move                                               *)

Moved(pcs, k)       == [ok |-> TRUE,  pieces |-> pcs, kur |-> k, err |-> ""]
NotMoved(pcs, k, e) == [ok |-> FALSE, pieces |-> pcs, kur |-> k, err |-> e]

RECURSIVE replay(_, _, _, _, _, _, _, _)

(* The second pass of execute_move from index i of the path (0-based as in *)
(* the code), the moving piece standing on rnum0 all along.                *)
replay(pcs, k, path, color, rnum0, rnum_i, i, promoted) ==
  IF ~(i < Len(path))
  THEN LET mv == move_piece(pcs, rnum0, rnum_i)
       IN IF mv.ok THEN Moved(mv.pieces, k) ELSE NotMoved(mv.pieces, k, mv.err)
  ELSE
    LET mop     == path[i + 1]
        rnum_j  == path[i + 2]
        js      == jumped_square(rnum_i, rnum_j)
        rm      == remove_piece(pcs, js.val)
        jumping == (mop = JUMP)
        pcs1    == IF jumping THEN rm.pieces ELSE pcs
        k1      == IF jumping THEN goto_hell(k, rm.piece) ELSE k
        rc      == rowcol(rnum_j)
        promo   == ~promoted /\ rc.val[1] = kings_row(color)
        pr      == promote_piece(pcs1, rnum0, FALSE)
    IN IF jumping /\ ~js.ok THEN NotMoved(pcs, k, js.err)
       ELSE IF jumping /\ ~rm.ok THEN NotMoved(pcs, k, rm.err)
       ELSE IF ~rc.ok THEN NotMoved(pcs1, k1, rc.err)
       ELSE IF promo
         THEN IF ~pr.ok THEN NotMoved(pcs1, k1, pr.err)
              ELSE replay(pr.pieces, k1, path, color, rnum0, rnum_j, i + 2, TRUE)
       ELSE replay(pcs1, k1, path, color, rnum0, rnum_j, i + 2, promoted)

(* Faulty variant of the test of execute_move: a simple move is legal only *)
(* when the piece has no jump.                                            *)
InPaths_jump_forced(path, paths) ==
  /\ \E i \in 1..Len(paths) : paths[i] = path
  /\ path[2] = SIMPLE => \A i \in 1..Len(paths) : paths[i][2] # JUMP

InPaths(path, paths) == \E i \in 1..Len(paths) : paths[i] = path

(* Faulty variant of execute_move: the color of the piece is not compared   *)
(* with the turn.                                                          *)
execute_move_any_color(pcs, k, trn, path) ==
  IF Len(path) < 3 THEN NotMoved(pcs, k, "move path too short")
  ELSE
    LET rnum0 == path[1]
        found == at(pcs, rnum0)
        piece == found.val
    IN IF ~found.ok THEN NotMoved(pcs, k, found.err)
       ELSE
       With(find_move_paths(pcs, rnum0, FALSE), LAMBDA cand :
         IF cand.raised THEN NotMoved(cand.pieces, k, "find_move_paths")
         ELSE IF ~InPaths(path, cand.paths)
           THEN NotMoved(cand.pieces, k, "not a legal move")
         ELSE replay(cand.pieces, k, path, piece.color, rnum0, rnum0, 1,
                     piece.caste = KING))

execute_move(pcs, k, trn, path) ==
  IF Len(path) < 3 THEN NotMoved(pcs, k, "move path too short")
  ELSE
    LET rnum0 == path[1]
        found == at(pcs, rnum0)
        piece == found.val
    IN IF ~found.ok THEN NotMoved(pcs, k, found.err)
       ELSE IF piece.color # trn THEN NotMoved(pcs, k, "wrong turn")
       ELSE
       With(find_move_paths(pcs, rnum0, FALSE), LAMBDA cand :
         IF cand.raised THEN NotMoved(cand.pieces, k, "find_move_paths")
         ELSE IF ~InPaths(path, cand.paths)
           THEN NotMoved(cand.pieces, k, "not a legal move")
         ELSE replay(cand.pieces, k, path, piece.color, rnum0, rnum0, 1,
                     piece.caste = KING))

-----------------------------------------------------------------------------
(* Checkers: the game.  g is the record of the fields of a Checkers object *)

Fields(pcs, k, h, st, mnum, trn, e, w) ==
  [pieces |-> pcs, kur |-> k, history |-> h, state |-> st,
   move_num |-> mnum, turn |-> trn, eog |-> e, winner |-> w]

NoKur == [c \in Color |-> << >>]

(* Faulty variant of clear: the captured pieces are kept. *)
clear_keeps_kur(g) ==
  Fields(<< >>, g.kur, << >>, NOT_STARTED, 0, BLACK, NO_EOG, None)

clear(g) == Fields(<< >>, NoKur, << >>, NOT_STARTED, 0, BLACK, NO_EOG, None)

Checkers_setup(g) == [clear(g) EXCEPT !.state = NOT_STARTED, !.move_num = 1,
                                      !.turn = BLACK]

RECURSIVE add_range(_, _, _, _, _)

(* for rnum in range(lo, hi): add_new_piece(rnum, color, caste) *)
add_range(pcs, lo, hi, color, caste) ==
  IF lo >= hi THEN pcs
  ELSE add_range(add_new_piece(pcs, lo, color, caste).pieces,
                 lo + 1, hi, color, caste)

setup(g) ==
  LET g0 == Checkers_setup(g)
  IN [g0 EXCEPT !.pieces =
        add_range(add_range(g0.pieces, 1, 13, BLACK, MAN), 21, 33, WHITE, MAN)]

start(g) ==
  IF numof_black_pieces(g.pieces) = 0
    THEN [ok |-> FALSE, g |-> g, err |-> "no black pieces on board"]
  ELSE IF numof_white_pieces(g.pieces) = 0
    THEN [ok |-> FALSE, g |-> g, err |-> "no white pieces on board"]
  ELSE [ok |-> TRUE, err |-> "",
        g |-> [g EXCEPT !.state = IN_PLAY, !.move_num = 1, !.turn = BLACK,
                        !.history = add_event_to_history(@, <<"STARTED(t)">>)]]

stop(g) ==
  [g EXCEPT !.state = GAME_OVER, !.eog = ABORT, !.winner = None,
            !.history = add_event_to_history(@, <<"ABORTED">>)]

(* Faulty variant of resign: the color that resigns is the winner. *)
resign_wins(g, color) ==
  [g EXCEPT !.state = GAME_OVER, !.eog = RESIGN, !.winner = color,
            !.history = add_event_to_history(@, <<"RESIGNED(", lower(color), ")">>)]

resign(g, color) ==
  [g EXCEPT !.state = GAME_OVER, !.eog = RESIGN,
            !.winner = opposite_color(color),
            !.history = add_event_to_history(@, <<"RESIGNED(", lower(color), ")">>)]

(* Faulty variant of is_game_over: the two outcomes exchanged. *)
is_game_over_exchanged(g, color) ==
  LET mine == {r \in DOMAIN g.pieces : g.pieces[r].color = color}
  IN IF \E r \in mine : has_a_move(g.pieces, r)
       THEN [over |-> FALSE, g |-> g]
     ELSE IF Cardinality(mine) # 0
       THEN [over |-> TRUE,
             g |-> [g EXCEPT !.eog = DEFEAT, !.winner = opposite_color(color),
                      !.history = add_event_to_history(@,
                                    <<"DEFEATED(", lower(color), ")">>),
                      !.state = GAME_OVER]]
     ELSE [over |-> TRUE,
           g |-> [g EXCEPT !.eog = DRAW, !.winner = None,
                    !.history = add_event_to_history(@, <<"DRAW">>),
                    !.state = GAME_OVER]]

(* is_game_over: the fields it sets when it returns True. *)
is_game_over(g, color) ==
  LET mine == {r \in DOMAIN g.pieces : g.pieces[r].color = color}
  IN IF \E r \in mine : has_a_move(g.pieces, r)
       THEN [over |-> FALSE, g |-> g]
     ELSE IF Cardinality(mine) = 0
       THEN [over |-> TRUE,
             g |-> [g EXCEPT !.eog = DEFEAT, !.winner = opposite_color(color),
                      !.history = add_event_to_history(@,
                                    <<"DEFEATED(", lower(color), ")">>),
                      !.state = GAME_OVER]]
     ELSE [over |-> TRUE,
           g |-> [g EXCEPT !.eog = DRAW, !.winner = None,
                    !.history = add_event_to_history(@, <<"DRAW">>),
                    !.state = GAME_OVER]]

(* Faulty variant of pass_turn: the turn passes whether the game is over   *)
(* or not.                                                                 *)
pass_turn_always(g, color, over) ==
  [g EXCEPT !.turn = color,
            !.move_num = IF color = BLACK THEN @ + 1 ELSE @]

(* Faulty variant of pass_turn: every move is counted. *)
pass_turn_counts_every_move(g, color, over) ==
  IF ~over
    THEN [g EXCEPT !.turn = color, !.move_num = @ + 1]
  ELSE g

(* The end of make_a_move: the turn passes when the game is not over. *)
pass_turn(g, color, over) ==
  IF ~over
    THEN [g EXCEPT !.turn = color,
                   !.move_num = IF color = BLACK THEN @ + 1 ELSE @]
  ELSE g

make_a_move(g, path) ==
  With(IF g.state = NOT_STARTED THEN start(g)
       ELSE [ok |-> TRUE, g |-> g, err |-> ""], LAMBDA st :
    IF g.state = NOT_STARTED /\ ~st.ok
      THEN [ok |-> FALSE, err |-> st.err, g |-> g]
    ELSE IF g.state = GAME_OVER
      THEN [ok |-> FALSE, err |-> "game not setup", g |-> g]
    ELSE
    With(execute_move(st.g.pieces, st.g.kur, st.g.turn, path), LAMBDA ex :
      With([st.g EXCEPT !.pieces = ex.pieces, !.kur = ex.kur], LAMBDA g2 :
        IF ~ex.ok THEN [ok |-> FALSE, err |-> ex.err, g |-> g2]
        ELSE
        With([g2 EXCEPT !.history =
                add_move_to_history(@, g2.turn, g2.move_num, path)], LAMBDA g3 :
          With(is_game_over(g3, opposite_color(g3.turn)), LAMBDA go :
            [ok |-> TRUE, err |-> "",
             g |-> pass_turn(go.g, opposite_color(g3.turn), go.over)])))))

take_a_peek(g, rn) == find_move_paths(g.pieces, rn, FALSE)

-----------------------------------------------------------------------------
(* Inputs of the callers                                                   *)

(* The pieces a caller may add by hand before a game (command add). *)
Placements ==
  { <<14, BLACK, KING>>, <<21, BLACK, MAN>>,
    <<17, WHITE, MAN>>, <<18, WHITE, MAN>>, <<25, WHITE, MAN>>,
    <<26, WHITE, MAN>>, <<1, WHITE, MAN>> }

Squares == rnum_min..rnum_max

(* The squares a caller names: every occupied square, one empty square if  *)
(* there is one, and a number beyond each end of the board.                *)
Origins(pcs) ==
  LET empty == Squares \ DOMAIN pcs
  IN DOMAIN pcs
     \cup {rnum_min - 1, rnum_max + 1}
     \cup (IF empty = {} THEN {} ELSE {CHOOSE r \in empty : TRUE})

(* The squares one or two diagonal steps away from square a. *)
Near(a) ==
  IF ~chk_rnum(a) THEN {rnum_min}
  ELSE { b \in Squares :
           LET dr == rowcol(b).val[1] - rowcol(a).val[1]
               dc == rowcol(b).val[2] - rowcol(a).val[2]
           IN (dr \in {-2, -1, 1, 2}) /\ (dc = dr \/ dc = -dr) }

SeqRange(sq) == { sq[i] : i \in 1..Len(sq) }

(* The squares a caller tries a move of his own from: the lowest square of *)
(* each color, one empty square and a number beyond each end of the board. *)
Probes(pcs) ==
  (Origins(pcs) \ DOMAIN pcs)
  \cup { r \in DOMAIN pcs :
           \A q \in DOMAIN pcs : pcs[q].color = pcs[r].color => r <= q }

(* The paths handed to make_a_move: every path the move engine offers for  *)
(* any square, paths that are too short, every one-segment path from a     *)
(* probed square to a near square and every offered jump path with one     *)
(* more jump.                                                              *)
MovePaths(pcs) ==
  With(UNION { SeqRange(find_move_paths(pcs, r, FALSE).paths) :
               r \in DOMAIN pcs }, LAMBDA offered :
    offered
    \cup { << >>, <<9>>, <<9, SIMPLE>> }
    \cup UNION { { <<a, mop, b>> : mop \in {SIMPLE, JUMP}, b \in Near(a) } :
                 a \in Probes(pcs) }
    \cup UNION { { p \o <<JUMP, b>> : b \in Near(p[Len(p)]) } :
                 p \in { q \in offered : q[2] = JUMP } })

-----------------------------------------------------------------------------
(* The state machine                                                       *)

G == Fields(pieces, kur, history, state, move_num, turn, eog, winner)

(* The fields of the game after a call on it; a call on the game leaves    *)
(* the caller's own board alone.                                           *)
Install(g) ==
  /\ pieces'   = g.pieces
  /\ kur'      = g.kur
  /\ history'  = g.history
  /\ state'    = g.state
  /\ move_num' = g.move_num
  /\ turn'     = g.turn
  /\ eog'      = g.eog
  /\ winner'   = g.winner
  /\ UNCHANGED <<board, ret, hanoi_vars, config>>

(* last: the call, whether it returned without raising, and its argument:  *)
(* the color resign was given, the path make_a_move was given when the     *)
(* call succeeded or changed the board.                                    *)
Call(op, ok, path) == [op |-> op, ok |-> ok, path |-> path]

(* CheckersCli.__init__: no color is played by a bot. *)
NoBots == [c \in Color |-> None]

(* No Tower of Hanoi has been created. *)
NoHanoi ==
  /\ pegs       = << >>
  /\ numOfMoves = 0
  /\ frames     = << >>
  /\ phase      = "none"

Checkers_init ==
  Fields(<< >>, NoKur, << >>, NOT_STARTED, 0, BLACK, NO_EOG, None)

Init ==
  /\ pieces   = Checkers_init.pieces
  /\ kur      = Checkers_init.kur
  /\ history  = Checkers_init.history
  /\ state    = Checkers_init.state
  /\ move_num = Checkers_init.move_num
  /\ turn     = Checkers_init.turn
  /\ eog      = Checkers_init.eog
  /\ winner   = Checkers_init.winner
  /\ last     = Call("init", TRUE, << >>)
  /\ board    = CheckersBoard_init(StdSize).val
  /\ ret      = None
  /\ config   = NoBots
  /\ NoHanoi

(* Checkers.clear() *)
Clear ==
  /\ Install(clear(G))
  /\ last' = Call("clear", TRUE, << >>)

(* EnglishDraughts.setup() *)
Setup ==
  /\ Install(setup(G))
  /\ last' = Call("setup", TRUE, << >>)

(* Command add: board.add_new_piece(rnum, color, caste) before a game *)
AddPiece(n, color, caste) ==
  /\ state = NOT_STARTED
  /\ Cardinality(DOMAIN pieces) < MaxPieces
  /\ \E r \in {add_new_piece(pieces, n, color, caste)} :
        /\ r.ok
        /\ pieces' = r.pieces
  /\ last' = Call("add", TRUE, << >>)
  /\ UNCHANGED <<kur, history, state, move_num, turn, eog, winner,
               hanoi_vars, config, board, ret>>

(* Checkers.start() *)
Start ==
  /\ Len(history) < MaxHistory
  /\ \E r \in {start(G)} :
        /\ Install(r.g)
        /\ last' = Call("start", r.ok, << >>)

(* Checkers.make_a_move(path) *)
MakeAMove(path) ==
  /\ Len(history) < MaxHistory
  /\ \E r \in {make_a_move(G, path)} :
        /\ Install(r.g)
        /\ last' = Call("make_a_move", r.ok,
                        IF r.ok \/ r.g.pieces # pieces THEN path ELSE << >>)

(* CheckersMove.find_move_paths(game, rnum, jumps_only); take_a_peek is    *)
(* the call with jumps_only False.                                         *)
FindMovePaths(rn, jumps_only) ==
  /\ Len(history) < MaxHistory
  /\ \E r \in {find_move_paths(pieces, rn, jumps_only)} :
        /\ pieces' = r.pieces
        /\ last' = Call("find_move_paths", ~r.raised, << >>)
  /\ UNCHANGED <<kur, history, state, move_num, turn, eog, winner,
               hanoi_vars, config, board, ret>>

Next ==
  \/ Clear
  \/ Setup
  \/ \E pl \in Placements : AddPiece(pl[1], pl[2], pl[3])
  \/ Start
  \/ \E path \in MovePaths(pieces) : MakeAMove(path)
  \/ \E rn \in Origins(pieces), jumps_only \in BOOLEAN :
       FindMovePaths(rn, jumps_only)

Spec == Init /\ [][Next]_vars

-----------------------------------------------------------------------------
(* The life cycle of a game played from the standard position, with the    *)
(* calls that end a game by hand.                                          *)

(* Checkers.stop() *)
Stop ==
  /\ Len(history) < MaxHistory
  /\ Install(stop(G))
  /\ last' = Call("stop", TRUE, << >>)

(* Checkers.resign(color) *)
Resign(color) ==
  /\ Len(history) < MaxHistory
  /\ Install(resign(G, color))
  /\ last' = Call("resign", TRUE, <<color>>)

LifeNext ==
  \/ Clear
  \/ Setup
  \/ Start
  \/ Stop
  \/ \E color \in Color : Resign(color)
  \/ \E path \in MovePaths(pieces) : MakeAMove(path)
  \/ \E rn \in Origins(pieces), jumps_only \in BOOLEAN :
       FindMovePaths(rn, jumps_only)

LifeSpec == Init /\ [][LifeNext]_vars

-----------------------------------------------------------------------------
(* Play with captures: games on boards set by hand or by setup(), played   *)
(* with make_a_move and ended by a move, by stop() or by resign().         *)

(* The pieces added by hand before such a game. *)
PlayPlacements ==
  { <<14, BLACK, KING>>, <<21, BLACK, MAN>>, <<17, WHITE, MAN>>,
    <<18, WHITE, MAN>>, <<25, WHITE, MAN>> }

PlayNext ==
  \/ Clear
  \/ Setup
  \/ \E pl \in PlayPlacements : AddPiece(pl[1], pl[2], pl[3])
  \/ Start
  \/ Stop
  \/ \E color \in Color : Resign(color)
  \/ \E path \in MovePaths(pieces) : MakeAMove(path)

PlaySpec == Init /\ [][PlayNext]_vars

-----------------------------------------------------------------------------
(* The coordinate conversions of a CheckersBoard of any size the           *)
(* initializer accepts.                                                    *)

BoardSizes == -1..MaxSize

(* The reachable numbers a caller tries: all of the board and some beyond. *)
TriedRnums(b) == (b.rnum_min - 3)..(b.rnum_max + 3)

(* The rows and columns a caller tries: all of the board and some beyond.  *)
TriedCoords(b) == -2..(b.size + 1)

BoardInit ==
  /\ pieces   = Checkers_init.pieces
  /\ kur      = Checkers_init.kur
  /\ history  = Checkers_init.history
  /\ state    = Checkers_init.state
  /\ move_num = Checkers_init.move_num
  /\ turn     = Checkers_init.turn
  /\ eog      = Checkers_init.eog
  /\ winner   = Checkers_init.winner
  /\ \E sz \in BoardSizes :
        /\ CheckersBoard_init(sz).ok
        /\ board = CheckersBoard_init(sz).val
  /\ last     = Call("CheckersBoard", TRUE, << >>)
  /\ ret      = None
  /\ config   = NoBots
  /\ NoHanoi

(* board.rowcol(n) *)
Rowcol(n) ==
  /\ ret'  = CheckersBoard_rowcol(board, n)
  /\ last' = Call("rowcol", ret'.ok, <<n>>)
  /\ UNCHANGED <<pieces, kur, history, state, move_num, turn, eog, winner,
                 hanoi_vars, config, board>>

(* board.rnum(row, col) *)
Rnum(row, col) ==
  /\ ret'  = CheckersBoard_rnum(board, row, col)
  /\ last' = Call("rnum", ret'.ok, <<row, col>>)
  /\ UNCHANGED <<pieces, kur, history, state, move_num, turn, eog, winner,
                 hanoi_vars, config, board>>

BoardNext ==
  \/ \E n \in TriedRnums(board) : Rowcol(n)
  \/ \E row \in TriedCoords(board), col \in TriedCoords(board) : Rnum(row, col)

BoardSpec == BoardInit /\ [][BoardNext]_vars

-----------------------------------------------------------------------------
(* The conversions between move paths and notation strings.                *)

(* The squares of the paths a caller converts: one- and two-digit ones. *)
NotaSquares == {3, 10, 17, 30}

(* Paths of up to two segments over those squares. *)
NotaPaths ==
  { <<a>> : a \in NotaSquares }
    \cup { <<a, m, b>> : a \in NotaSquares, m \in MOP_chars, b \in NotaSquares }
    \cup { <<a, m, b, n, c>> : a \in NotaSquares, m \in MOP_chars,
                               b \in NotaSquares, n \in MOP_chars,
                               c \in NotaSquares }

(* The characters a caller types. *)
NotaChars == {"1", "0", SIMPLE, JUMP, " ", "y", "\n"}

RECURSIVE StringsOfLen(_)

StringsOfLen(n) ==
  IF n = 0 THEN { << >> }
  ELSE { Append(s, c) : s \in StringsOfLen(n - 1), c \in NotaChars }

(* The strings a caller gives to nota_to_path: the short ones over the     *)
(* characters above and the notations of the paths above.                  *)
Notas ==
  UNION { StringsOfLen(n) : n \in 0..MaxNota }
    \cup { path_to_nota(p) : p \in NotaPaths }

(* mop.path_to_nota(path) *)
PathToNota(path) ==
  /\ ret'  = Ok(path_to_nota(path))
  /\ last' = Call("path_to_nota", TRUE, path)
  /\ UNCHANGED <<pieces, kur, history, state, move_num, turn, eog, winner,
                 hanoi_vars, config, board>>

(* mop.nota_to_path(nota) *)
NotaToPath(nota) ==
  /\ ret'  = nota_to_path(nota)
  /\ last' = Call("nota_to_path", ret'.ok, nota)
  /\ UNCHANGED <<pieces, kur, history, state, move_num, turn, eog, winner,
                 hanoi_vars, config, board>>

NotaNext ==
  \/ \E path \in NotaPaths : PathToNota(path)
  \/ \E nota \in Notas : NotaToPath(nota)

NotaSpec == Init /\ [][NotaNext]_vars

-----------------------------------------------------------------------------
(* The piece storage of the board called by hand: pieces are added, taken  *)
(* off and put back.                                                       *)

(* board.remove_piece(n); ret holds the piece returned. *)
RemovePiece(n) ==
  /\ \E r \in {remove_piece(pieces, n)} :
        /\ pieces' = r.pieces
        /\ ret'    = IF r.ok THEN Ok(r.piece) ELSE Raise(r.err)
        /\ last'   = Call("remove_piece", r.ok, <<n>>)
  /\ UNCHANGED <<kur, history, state, move_num, turn, eog, winner,
               hanoi_vars, config, board>>

(* board.replace_piece(n, piece) with the piece remove_piece has just      *)
(* returned.                                                               *)
ReplacePiece(n) ==
  /\ last.op = "remove_piece" /\ last.ok
  /\ \E r \in {replace_piece(pieces, n, ret.val)} :
        /\ pieces' = r.pieces
        /\ last'   = Call("replace_piece", r.ok, <<n>>)
  /\ UNCHANGED <<kur, history, state, move_num, turn, eog, winner,
               hanoi_vars, config, board, ret>>

(* The squares a piece taken off is put back on: the square it was taken   *)
(* from, every occupied square, the last square of the board and a number  *)
(* beyond each end of the board.                                           *)
PutBackSquares ==
  DOMAIN pieces
    \cup {rnum_min - 1, rnum_max, rnum_max + 1}
    \cup (IF last.op = "remove_piece" THEN {last.path[1]} ELSE {})

StoreNext ==
  \/ \E pl \in Placements : AddPiece(pl[1], pl[2], pl[3])
  \/ \E n \in Origins(pieces) : RemovePiece(n)
  \/ \E n \in PutBackSquares : ReplacePiece(n)

StoreSpec == Init /\ [][StoreNext]_vars

-----------------------------------------------------------------------------
(* The command-line interface (checkers_cli.py): one action per command    *)
(* line read by mainloop, with the play-state check each command makes.    *)
(* The lists move_paths and move_rnums, which only annotate the printed    *)
(* board, and the autoshow flags are left out.                             *)

(* The bots a color can be given: 'none' removes the bot. *)
BotAlgs == {None, "random", "longest"}

(* The bot commands typed: black is given the longest-path bot, white the  *)
(* random bot, and either bot is removed again.                            *)
BotCommands ==
  { <<BLACK, "longest">>, <<WHITE, "random">>, <<BLACK, None>>,
    <<WHITE, None>> }

MaxCliHistory == 2  \* history entries after which no further move is typed

(* Faulty variant of _chk_state: a command is accepted in every state. *)
chk_state_any(st, states) == TRUE

(* CheckersCli._chk_state: the command is valid in the given states. *)
chk_state(st, states) == st \in states

(* The paths a bot of a color chooses from: the candidate paths of         *)
(* take_a_peek for the pieces of its color, all of them for the random     *)
(* bot, the longest of them for the longest-path bot.                      *)
Bot_candidates(g, color, alg) ==
  With(UNION { SeqRange(take_a_peek(g, r).paths) :
               r \in { q \in DOMAIN g.pieces : g.pieces[q].color = color } },
       LAMBDA cands :
    IF alg = "longest"
      THEN { p \in cands : \A q \in cands : Len(q) <= Len(p) }
    ELSE cands)

(* CheckersCli.is_bots_turn *)
is_bots_turn == state = IN_PLAY /\ config[turn] # None

(* A command that raised before it changed anything: mainloop prints the   *)
(* error and reads the next line.                                          *)
Rejected(cmd) ==
  /\ last' = Call(cmd, FALSE, << >>)
  /\ UNCHANGED <<pieces, kur, history, state, move_num, turn, eog, winner,
                 hanoi_vars, config, board, ret>>

(* CheckersCli.exec_clear *)
CliClear ==
  /\ ~is_bots_turn
  /\ Install(clear(G))
  /\ last' = Call("clear", TRUE, << >>)

(* CheckersCli.exec_setup *)
CliSetup ==
  /\ ~is_bots_turn
  /\ IF chk_state(state, {NOT_STARTED})
       THEN /\ Install(setup(G))
            /\ last' = Call("setup", TRUE, << >>)
     ELSE Rejected("setup")

(* CheckersCli.exec_add_piece *)
CliAdd(n, color, caste) ==
  /\ ~is_bots_turn
  /\ Cardinality(DOMAIN pieces) < MaxPieces
  /\ \E r \in {add_new_piece(pieces, n, color, caste)} :
       IF chk_state(state, {NOT_STARTED}) /\ r.ok
         THEN /\ pieces' = r.pieces
              /\ last' = Call("add", TRUE, <<n>>)
              /\ UNCHANGED <<kur, history, state, move_num, turn, eog, winner,
                             hanoi_vars, config, board, ret>>
       ELSE Rejected("add")

(* CheckersCli.exec_remove_piece *)
CliRemove(n) ==
  /\ ~is_bots_turn
  /\ Cardinality(DOMAIN pieces) <= MaxPieces
  /\ \E r \in {remove_piece(pieces, n)} :
       IF chk_state(state, {NOT_STARTED}) /\ r.ok
         THEN /\ pieces' = r.pieces
              /\ last' = Call("remove", TRUE, <<n>>)
              /\ UNCHANGED <<kur, history, state, move_num, turn, eog, winner,
                             hanoi_vars, config, board, ret>>
       ELSE Rejected("remove")

(* CheckersCli.exec_start *)
CliStart ==
  /\ ~is_bots_turn
  /\ \E r \in {start(G)} :
       IF chk_state(state, {NOT_STARTED}) /\ r.ok
         THEN /\ Len(history) < MaxCliHistory
              /\ Install(r.g)
              /\ last' = Call("start", TRUE, << >>)
       ELSE Rejected("start")

(* CheckersCli.exec_stop *)
CliStop ==
  /\ ~is_bots_turn
  /\ IF chk_state(state, {IN_PLAY})
       THEN /\ Install(stop(G))
            /\ last' = Call("stop", TRUE, << >>)
     ELSE Rejected("stop")

(* CheckersCli.exec_resign: the color on turn resigns. *)
CliResign ==
  /\ ~is_bots_turn
  /\ IF chk_state(state, {IN_PLAY})
       THEN /\ Install(resign(G, turn))
            /\ last' = Call("resign", TRUE, <<turn>>)
     ELSE Rejected("resign")

(* CheckersCli.exec_move: a line that starts with a number.  A line of     *)
(* fewer than three tokens fails the count of arguments; an error of       *)
(* make_a_move is printed by mainloop, with the game as the call left it.  *)
CliMove(path) ==
  /\ ~is_bots_turn
  /\ IF Len(path) >= 3 /\ chk_state(state, {IN_PLAY})
       THEN /\ Len(history) < MaxCliHistory
            /\ \E r \in {make_a_move(G, path)} :
                 /\ Install(r.g)
                 /\ last' = Call("MOVE", r.ok,
                                 IF r.ok \/ r.g.pieces # pieces THEN path
                                 ELSE << >>)
     ELSE Rejected("MOVE")

(* CheckersCli.exec_peek: board.at(rnum) is read before take_a_peek. *)
CliPeek(rn) ==
  /\ ~is_bots_turn
  /\ IF chk_state(state, {NOT_STARTED, IN_PLAY}) /\ at(pieces, rn).ok
       THEN /\ \E r \in {take_a_peek(G, rn)} : pieces' = r.pieces
            /\ last' = Call("peek", TRUE, <<rn>>)
            /\ UNCHANGED <<kur, history, state, move_num, turn, eog, winner,
                           hanoi_vars, config, board, ret>>
     ELSE Rejected("peek")

(* CheckersCli.exec_show, exec_config, exec_autoshow, exec_help: the game  *)
(* is printed, not changed.                                                *)
CliShow(cmd) ==
  /\ ~is_bots_turn
  /\ last' = Call(cmd, TRUE, << >>)
  /\ UNCHANGED <<pieces, kur, history, state, move_num, turn, eog, winner,
                 hanoi_vars, config, board, ret>>

(* CheckersCli.exec_game: a new game object of the standard size; any      *)
(* other size of 4 or more ends in the TypeError of the initializer of     *)
(* EnglishDraughtsVariation, with the game object kept.                    *)
CliGame(sz) ==
  /\ ~is_bots_turn
  /\ IF chk_state(state, {NOT_STARTED}) /\ sz = StdSize
       THEN /\ Install(Checkers_init)
            /\ last' = Call("game", TRUE, <<sz>>)
     ELSE Rejected("game")

(* CheckersCli.exec_bot *)
CliBot(color, alg) ==
  /\ ~is_bots_turn
  /\ IF chk_state(state, {NOT_STARTED})
       THEN /\ config' = [config EXCEPT ![color] = alg]
            /\ last' = Call("bot", TRUE, <<color>>)
            /\ UNCHANGED <<pieces, kur, history, state, move_num, turn, eog,
                           winner, hanoi_vars, board, ret>>
     ELSE Rejected("bot")

(* The move of a bot: one of its candidate paths is handed to make_a_move; *)
(* with no candidate the bot returns an empty path and the game is left    *)
(* as it was.                                                              *)
Bot_make_a_move(g, color, alg) ==
  IF Bot_candidates(g, color, alg) = {}
    THEN { [ok |-> TRUE, g |-> g, path |-> << >>] }
  ELSE { With(make_a_move(g, p), LAMBDA r :
              [ok |-> r.ok, g |-> r.g, path |-> p]) :
         p \in Bot_candidates(g, color, alg) }

RECURSIVE autoplay(_, _, _)

(* The loop of exec_autoplay: the games it can leave after at most         *)
(* maxmoves half moves of two bots of the same algorithm.                  *)
autoplay(g, alg, maxmoves) ==
  IF maxmoves <= 0 \/ g.state # IN_PLAY THEN { [ok |-> TRUE, g |-> g] }
  ELSE UNION { IF ~r.ok \/ Len(r.path) < 3
                 THEN { [ok |-> r.ok, g |-> r.g] }
               ELSE autoplay(r.g, alg, maxmoves - 1) :
               r \in Bot_make_a_move(g, g.turn, alg) }

(* CheckersCli.exec_autoplay *)
CliAutoplay(alg, maxmoves) ==
  /\ ~is_bots_turn
  /\ IF chk_state(state, {IN_PLAY}) /\ alg # None
       THEN /\ Len(history) + maxmoves <= MaxCliHistory
            /\ \E r \in autoplay(G, alg, maxmoves) :
                 /\ Install(r.g)
                 /\ last' = Call("autoplay", r.ok, << >>)
     ELSE Rejected("autoplay")

(* CheckersCli.bots_move: mainloop lets the bot of the color on turn move  *)
(* before it reads a line.                                                 *)
BotsMove ==
  /\ is_bots_turn
  /\ Len(history) < MaxCliHistory
  /\ \E r \in Bot_make_a_move(G, turn, config[turn]) :
       /\ Install(r.g)
       /\ last' = Call("bots_move", r.ok, r.path)

(* The pieces added by hand at the command line. *)
CliPlacements ==
  { <<14, BLACK, KING>>, <<17, WHITE, MAN>>, <<18, WHITE, MAN>> }

CliNext ==
  \/ CliClear
  \/ CliSetup
  \/ \E pl \in CliPlacements : CliAdd(pl[1], pl[2], pl[3])
  \/ \E n \in Probes(pieces) : CliRemove(n)
  \/ CliStart
  \/ CliStop
  \/ CliResign
  \/ \E path \in MovePaths(pieces) : CliMove(path)
  \/ \E rn \in Probes(pieces) : CliPeek(rn)
  \/ \E cmd \in {"show", "config", "autoshow", "help"} : CliShow(cmd)
  \/ \E sz \in {3, StdSize, MaxSize} : CliGame(sz)
  \/ \E bc \in BotCommands : CliBot(bc[1], bc[2])
  \/ \E alg \in BotAlgs, maxmoves \in 1..MaxCliHistory :
       CliAutoplay(alg, maxmoves)
  \/ BotsMove

CliSpec == Init /\ [][CliNext]_vars

-----------------------------------------------------------------------------
(* CheckersMove.jumped_square asked about any two numbers, on the empty    *)
(* board of a new game.                                                    *)

(* The numbers handed to jumped_square: every square of the board and a    *)
(* number beyond each end of it.                                           *)
JumpEnds == (rnum_min - 1)..(rnum_max + 1)

(* CheckersMove.jumped_square(game, rnum0, rnum1) *)
JumpedSquare(rnum0, rnum1) ==
  /\ ret'  = jumped_square(rnum0, rnum1)
  /\ last' = Call("jumped_square", jumped_square(rnum0, rnum1).ok,
                  <<rnum0, rnum1>>)
  /\ UNCHANGED <<pieces, kur, history, state, move_num, turn, eog, winner,
                 hanoi_vars, config, board>>

(* The second number asked with rnum0: every number at most nine away,     *)
(* which takes in rnum0 itself, its neighbours and every square a jump     *)
(* away, and the two corner squares.                                       *)
JumpPartners(rnum0) ==
  { n \in JumpEnds : n - rnum0 \in -9..9 } \cup {rnum_min, rnum_max}

JumpNext ==
  \E rnum0 \in JumpEnds : \E rnum1 \in JumpPartners(rnum0) :
     JumpedSquare(rnum0, rnum1)

JumpSpec == Init /\ [][JumpNext]_vars

-----------------------------------------------------------------------------
(* Tower of Hanoi (hanoi.py).  A list of disks is a sequence whose first   *)
(* element is the top disk; a baked peg is the sequence of its text lines, *)
(* a line that shows a disk being the disk itself.                         *)

MaxDisks == 4     \* disks of the largest list [1, ..., N] given as DISKS

PegAOdds == <<1, 3, 5, 7, 9>>

(* Element i of a Python list of length Len(lst), i counted from 0 and,    *)
(* when negative, from the end.                                            *)
PyIndex(lst, i) == IF i < 0 THEN i + Len(lst) + 1 ELSE i + 1

Peg(label, disks) == [label |-> label, disks |-> disks, baked |-> << >>]

(* Peg.calc_charbox: the lines of the character box. *)
calc_charbox(peg) == 3 + Len(peg.disks)

(* Peg.bake: tip, shaft segments, the disks, base and label. *)
Peg_bake(peg, lines) ==
  [peg EXCEPT !.baked =
     <<"tip">>
       \o [i \in 1..((lines - 3) - Len(peg.disks)) |-> "shaft"]
       \o peg.disks
       \o <<"base", peg.label>>]

disknum_to_linenum(peg, disknum) ==
  (Len(peg.baked) - 2) - Len(peg.disks) + disknum

(* Faulty variant of move_top_disk: the disk goes under the disks of the   *)
(* destination peg.                                                        *)
move_top_disk_to_bottom(src, dst) ==
  [src |-> [src EXCEPT !.disks = Tail(@)],
   dst |-> [dst EXCEPT !.disks = Append(@, Head(src.disks))]]

(* Peg.move_top_disk: the two pegs after self (src) has given its top disk *)
(* to peg_dst.                                                             *)
move_top_disk(src, dst) ==
  LET i    == disknum_to_linenum(src, 0)
      dst1 == [dst EXCEPT !.disks = <<Head(src.disks)>> \o @]
      j    == disknum_to_linenum(dst1, 0)
  IN [src |-> [src EXCEPT !.disks = Tail(@),
                          !.baked[PyIndex(src.baked, i)] = "shaft"],
      dst |-> [dst1 EXCEPT !.baked[PyIndex(dst.baked, j)] =
                              src.baked[PyIndex(src.baked, i)]]]

(* TowerOfHanoi.__init__ and bake: copies of the three pegs, baked in the  *)
(* character box of peg A.                                                 *)
TowerOfHanoi(pegA, pegB, pegC) ==
  [k \in 1..3 |-> Peg_bake(<<pegA, pegB, pegC>>[k], calc_charbox(pegA))]

(* A call of solve_r: the indices of its pegs in pegs, its number of disks *)
(* and the statement it stands before.                                     *)
Frame(src, dst, tmp, ndisks, pc) ==
  [pegSrc |-> src, pegDst |-> dst, pegTmp |-> tmp, ndisks |-> ndisks, pc |-> pc]

Top == frames[Len(frames)]

(* frames with the innermost call standing before statement pc. *)
Goto(pc) == [frames EXCEPT ![Len(frames)].pc = pc]

(* Faulty variant of the call solve() makes: peg C is the destination. *)
solve_call_to_C(ndisks) == Frame(1, 3, 2, ndisks, "first")

(* The call solve() makes: solve_r(pegs[0], pegs[1], pegs[2], ndisks). *)
solve_call(ndisks) == Frame(1, 2, 3, ndisks, "first")

(* The lists of disks main() puts on peg A: [1, ..., N], odds and a list   *)
(* of the user's, which need not be sorted.                                *)
DiskLists ==
  { [i \in 1..n |-> i] : n \in 0..MaxDisks } \cup { PegAOdds, <<3, 1, 2>> }

HanoiInit ==
  /\ pieces   = Checkers_init.pieces
  /\ kur      = Checkers_init.kur
  /\ history  = Checkers_init.history
  /\ state    = Checkers_init.state
  /\ move_num = Checkers_init.move_num
  /\ turn     = Checkers_init.turn
  /\ eog      = Checkers_init.eog
  /\ winner   = Checkers_init.winner
  /\ last     = Call("init", TRUE, << >>)
  /\ board    = CheckersBoard_init(StdSize).val
  /\ ret      = None
  /\ config   = NoBots
  /\ \E disks \in DiskLists :
        pegs = TowerOfHanoi(Peg("A", disks), Peg("B", << >>), Peg("C", << >>))
  /\ numOfMoves = 0
  /\ frames     = << >>
  /\ phase      = "created"

checkers_vars ==
  <<pieces, kur, history, state, move_num, turn, eog, winner, last, board, ret,
    config>>

(* TowerOfHanoi.solve() up to its call of solve_r, or to its return when   *)
(* peg A holds no disk.                                                    *)
Solve ==
  /\ phase \in {"created", "returned"}
  /\ IF Len(pegs[1].disks) = 0
     THEN /\ phase' = "returned"
          /\ UNCHANGED <<pegs, numOfMoves, frames>>
     ELSE /\ numOfMoves' = 0
          /\ frames' = <<solve_call(Len(pegs[1].disks))>>
          /\ phase'  = "solving"
          /\ UNCHANGED pegs
  /\ UNCHANGED checkers_vars

(* solve_r: move the top n-1 disks from source to temporary. *)
MoveToTmp ==
  /\ phase = "solving"
  /\ Top.pc = "first"
  /\ frames' = IF Top.ndisks - 1 > 0
               THEN Append(Goto("move"),
                           Frame(Top.pegSrc, Top.pegTmp, Top.pegDst,
                                 Top.ndisks - 1, "first"))
               ELSE Goto("move")
  /\ UNCHANGED <<pegs, numOfMoves, phase>>
  /\ UNCHANGED checkers_vars

(* Faulty variant of MoveDisk: the move is not counted. *)
MoveDisk_uncounted ==
  /\ phase = "solving"
  /\ Top.pc = "move"
  /\ numOfMoves' = numOfMoves
  /\ \E r \in {move_top_disk(pegs[Top.pegSrc], pegs[Top.pegDst])} :
        pegs' = [pegs EXCEPT ![Top.pegSrc] = r.src, ![Top.pegDst] = r.dst]
  /\ frames' = Goto("last")
  /\ UNCHANGED phase
  /\ UNCHANGED checkers_vars

(* solve_r: move the n'th disk from source to destination. *)
MoveDisk ==
  /\ phase = "solving"
  /\ Top.pc = "move"
  /\ numOfMoves' = numOfMoves + 1
  /\ \E r \in {move_top_disk(pegs[Top.pegSrc], pegs[Top.pegDst])} :
        pegs' = [pegs EXCEPT ![Top.pegSrc] = r.src, ![Top.pegDst] = r.dst]
  /\ frames' = Goto("last")
  /\ UNCHANGED phase
  /\ UNCHANGED checkers_vars

(* solve_r: move the n-1 disks from temporary to destination. *)
MoveFromTmp ==
  /\ phase = "solving"
  /\ Top.pc = "last"
  /\ frames' = IF Top.ndisks - 1 > 0
               THEN Append(Goto("return"),
                           Frame(Top.pegTmp, Top.pegDst, Top.pegSrc,
                                 Top.ndisks - 1, "first"))
               ELSE Goto("return")
  /\ UNCHANGED <<pegs, numOfMoves, phase>>
  /\ UNCHANGED checkers_vars

(* solve_r returns to its caller, the outermost call to solve(), which     *)
(* returns in turn.                                                        *)
Return ==
  /\ phase = "solving"
  /\ Top.pc = "return"
  /\ frames' = SubSeq(frames, 1, Len(frames) - 1)
  /\ phase'  = IF Len(frames) = 1 THEN "returned" ELSE "solving"
  /\ UNCHANGED <<pegs, numOfMoves>>
  /\ UNCHANGED checkers_vars

HanoiNext ==
  \/ Solve
  \/ MoveToTmp
  \/ MoveDisk
  \/ MoveFromTmp
  \/ Return

HanoiSpec == HanoiInit /\ [][HanoiNext]_vars

(* The interpreter runs solve() to its end: a step that can be taken is    *)
(* taken.                                                                  *)
HanoiFairSpec == HanoiSpec /\ WF_vars(HanoiNext)

-----------------------------------------------------------------------------
(* Vocabulary of the properties                                            *)

Row(n) == (n - rnum_min) \div dark_squares_per_row

(* Twice the column of square n; the squares of an odd row stand one half  *)
(* step to the left of those of an even row, whatever the column numbering.*)
Col2(n) == 4 * ((n - rnum_min) % dark_squares_per_row) + 2 * (1 - (Row(n) % 2))

NumSegments(path) == (Len(path) - 1) \div 2
Source(path, i)   == path[2 * i - 1]
Mop(path, i)      == path[2 * i]
Landing(path, i)  == path[2 * i + 1]

(* The square strictly between the two ends of a jump. *)
Between(a, b) ==
  CHOOSE m \in Squares : /\ 2 * Row(m) = Row(a) + Row(b)
                         /\ 2 * Col2(m) = Col2(a) + Col2(b)

(* The squares jumped over by a path, in the order of the path. *)
JumpedOver(path) ==
  LET idx == SelectSeq([i \in 1..NumSegments(path) |-> i],
                       LAMBDA i : Mop(path, i) = JUMP)
  IN [j \in 1..Len(idx) |-> Between(Source(path, idx[j]), Landing(path, idx[j]))]

(* The row on which a man of the color is crowned. *)
CrownRow(color) == IF color = WHITE THEN 0 ELSE size - 1

(* Segment i of the path advances in the forward direction of the color. *)
Forward(color, path, i) ==
  IF color = BLACK THEN Row(Landing(path, i)) > Row(Source(path, i))
  ELSE Row(Landing(path, i)) < Row(Source(path, i))

(* The step is a make_a_move call that returned / that raised. *)
MoveDone   == last'.op = "make_a_move" /\ last'.ok
MoveFailed == last'.op = "make_a_move" /\ ~last'.ok

(* A piece of the color can make a simple move or a single jump on pcs. *)
CanStep(pcs, r) ==
  \E b \in Squares :
    LET dr == Row(b) - Row(r)
        dc == Col2(b) - Col2(r)
        fw == \/ pcs[r].caste = KING
              \/ (pcs[r].color = BLACK /\ dr > 0)
              \/ (pcs[r].color = WHITE /\ dr < 0)
    IN /\ b \notin DOMAIN pcs
       /\ fw
       /\ \/ (dr \in {-1, 1} /\ dc \in {-2, 2})
          \/ /\ dr \in {-2, 2} /\ dc \in {-4, 4}
             /\ Between(r, b) \in DOMAIN pcs
             /\ pcs[Between(r, b)].color # pcs[r].color

HasLegalMove(pcs, color) ==
  \E r \in DOMAIN pcs : pcs[r].color = color /\ CanStep(pcs, r)

-----------------------------------------------------------------------------
(* Properties                                                              *)

(* C1: whatever the board, the square and jumps_only, after               *)
(* find_move_paths (take_a_peek) has returned the piece mapping is the one *)
(* before the call (same squares, same color, ident and caste), and kur,   *)
(* turn, state and history are untouched.                                  *)
C1_PeekLeavesNoResidue ==
  [][last'.op = "find_move_paths" =>
       /\ last'.ok
       /\ pieces' = pieces
       /\ UNCHANGED <<kur, turn, state, history>>]_vars

(* A peek has been made on a board where a man has a jump chain whose      *)
(* first landing crowns it: the simulation promoted and demoted it.        *)
C1_Witness ==
  /\ last.op = "find_move_paths"
  /\ \E r \in DOMAIN pieces :
       /\ pieces[r].caste = MAN
       /\ \E p \in SeqRange(find_move_paths(pieces, r, TRUE).paths) :
            /\ Len(p) >= 5
            /\ Row(Landing(p, 1)) = CrownRow(pieces[r].color)

(* C2: while the game is IN_PLAY a make_a_move call that fails leaves the  *)
(* board, both kur lists, history, turn, move_num, state, eog and winner   *)
(* as they were.                                                           *)
C2_FailedMoveInPlayChangesNothing ==
  [][(state = IN_PLAY /\ MoveFailed) =>
       UNCHANGED <<pieces, kur, history, turn, move_num, state, eog, winner>>]_vars

(* C3: a make_a_move call that fails while the game is NOT_STARTED with    *)
(* both colors on the board leaves state NOT_STARTED, move_num and turn    *)
(* unchanged and history without a new event.                              *)
C3_FailedFirstMoveChangesNothing ==
  [][(/\ state = NOT_STARTED
      /\ numof_black_pieces(pieces) > 0
      /\ numof_white_pieces(pieces) > 0
      /\ MoveFailed) =>
       /\ state' = NOT_STARTED
       /\ UNCHANGED <<move_num, turn, history>>]_vars

(* C4: a successful make_a_move of a path with k JUMP segments takes       *)
(* exactly k pieces off the board, the ones strictly between the ends of   *)
(* each jump; they are of the opponent's color and are appended, in path   *)
(* order, to kur of that color; the mover and every other piece stay on    *)
(* the board; a SIMPLE path takes no piece.                                *)
C4_JumpsCaptureTheJumpedPieces ==
  [][MoveDone =>
       LET path  == last'.path
           mover == pieces[path[1]]
           opp   == opposite_color(mover.color)
           dest  == path[Len(path)]
           jo    == JumpedOver(path)
           taken == SeqRange(jo)
       IN /\ taken \subseteq DOMAIN pieces
          /\ Cardinality(taken) = Len(jo)
          /\ \A r \in taken : pieces[r].color = opp
          /\ kur'[opp] = kur[opp] \o [j \in 1..Len(jo) |-> pieces[jo[j]]]
          /\ kur'[mover.color] = kur[mover.color]
          /\ DOMAIN pieces' = ((DOMAIN pieces \ {path[1]}) \ taken) \cup {dest}
          /\ Cardinality(DOMAIN pieces') = Cardinality(DOMAIN pieces) - Len(jo)
          /\ pieces'[dest].color = mover.color
          /\ pieces'[dest].ident = mover.ident
          /\ \A r \in DOMAIN pieces' \ {dest} : pieces'[r] = pieces[r]]_vars

(* A move of two jumps or more has succeeded and its captives are the last *)
(* entries of the opponent's kur.                                          *)
C4_Witness ==
  /\ last.op = "make_a_move"
  /\ last.ok
  /\ Len(JumpedOver(last.path)) >= 2
  /\ Len(kur[opposite_color(pieces[last.path[Len(last.path)]].color)]) >= 2

(* C5: after a successful make_a_move the moved piece is a KING exactly    *)
(* when it was a KING before or one of the landing squares of the path,    *)
(* intermediate or final, is on the king's row of its color (row 0 for     *)
(* WHITE, row size-1 for BLACK); no other piece changes caste.             *)
C5_CrownedIffKingsRowTouched ==
  [][MoveDone =>
       LET path  == last'.path
           mover == pieces[path[1]]
           dest  == path[Len(path)]
       IN /\ (pieces'[dest].caste = KING) <=>
               \/ mover.caste = KING
               \/ \E i \in 1..NumSegments(path) :
                     Row(Landing(path, i)) = CrownRow(mover.color)
          /\ \A r \in DOMAIN pieces' \ {dest} :
               r \in DOMAIN pieces /\ pieces'[r].caste = pieces[r].caste]_vars

(* The black man of square 21 has jumped to its king's row on square 30    *)
(* and on to square 23, off that row, where it stands as a KING.           *)
C5_Witness ==
  /\ last.op = "make_a_move"
  /\ last.ok
  /\ last.path = <<21, JUMP, 30, JUMP, 23>>
  /\ 23 \in DOMAIN pieces
  /\ pieces[23] = CheckersPiece(BLACK, KING, 21)

(* The paths find_move_paths enumerates for the men standing on pcs. *)
PathsOfMen(pcs) ==
  UNION { { <<r, p>> : p \in SeqRange(find_move_paths(pcs, r, jo).paths) } :
          r \in {q \in DOMAIN pcs : pcs[q].caste = MAN}, jo \in BOOLEAN }

AllForward(color, path) ==
  \A i \in 1..NumSegments(path) : Forward(color, path, i)

(* Every segment that starts before the piece has landed on the king's row *)
(* of its color advances forward.                                          *)
ForwardUntilCrowned(color, path) ==
  \A i \in 1..NumSegments(path) :
    (\A j \in 1..(i - 1) : Row(Landing(path, j)) # CrownRow(color))
      => Forward(color, path, i)

(* C6 as claimed: in every path find_move_paths enumerates for a square    *)
(* holding a MAN and in every executed move of a MAN, each segment         *)
(* advances in the forward direction of the color (row increasing for      *)
(* BLACK, decreasing for WHITE).                                           *)
C6_ManNeverGoesBackward ==
  /\ [](\A rp \in PathsOfMen(pieces) : AllForward(pieces[rp[1]].color, rp[2]))
  /\ [][(MoveDone /\ pieces[last'.path[1]].caste = MAN) =>
          AllForward(pieces[last'.path[1]].color, last'.path)]_vars

(* C6 as amended: in every path enumerated for a square holding a MAN and  *)
(* in every executed move of a MAN, each segment up to and including the   *)
(* first landing on the king's row of the color advances forward; the      *)
(* segments after that landing are made as a KING, in any of the 4         *)
(* diagonal directions.                                                    *)
C6_ManGoesForwardUntilCrowned ==
  /\ [](\A rp \in PathsOfMen(pieces) :
          ForwardUntilCrowned(pieces[rp[1]].color, rp[2]))
  /\ [][(MoveDone /\ pieces[last'.path[1]].caste = MAN) =>
          ForwardUntilCrowned(pieces[last'.path[1]].color, last'.path)]_vars

(* The black man put on square 21 has made a move that crowned it on its   *)
(* first landing and then went backward.                                   *)
C6_Witness ==
  /\ last.op = "make_a_move"
  /\ last.ok
  /\ \E r \in DOMAIN pieces :
       /\ r = last.path[Len(last.path)]
       /\ last.path[1] = 21
       /\ pieces[r].ident = 21
       /\ pieces[r].color = BLACK
       /\ Row(Landing(last.path, 1)) = CrownRow(BLACK)
       /\ \E i \in 2..NumSegments(last.path) : ~Forward(BLACK, last.path, i)

(* C7: when a successful move leaves the color about to move without a     *)
(* piece the game is GAME_OVER with eog DEFEAT and the mover as winner;    *)
(* when that color has pieces but none with a legal move the game is       *)
(* GAME_OVER with eog DRAW and winner None.                                *)
C7_EndOfGameClassification ==
  [][MoveDone =>
       LET mover == pieces[last'.path[1]].color
           opp   == opposite_color(mover)
           left  == {r \in DOMAIN pieces' : pieces'[r].color = opp}
       IN /\ left = {} =>
               (state' = GAME_OVER /\ eog' = DEFEAT /\ winner' = mover)
          /\ (left # {} /\ ~HasLegalMove(pieces', opp)) =>
               (state' = GAME_OVER /\ eog' = DRAW /\ winner' = None)]_vars

(* A move has left the opponent with pieces that cannot move: a draw. *)
C7_Witness ==
  /\ last.op = "make_a_move"
  /\ last.ok
  /\ state = GAME_OVER
  /\ eog = DRAW
  /\ winner = None
  /\ LET mover == pieces[last.path[Len(last.path)]].color
     IN /\ \E r \in DOMAIN pieces : pieces[r].color = opposite_color(mover)
        /\ ~HasLegalMove(pieces, opposite_color(mover))

(* C8: after a successful make_a_move by color C from IN_PLAY the state is *)
(* GAME_OVER exactly when no piece of C's opponent has a legal move;       *)
(* otherwise the state stays IN_PLAY with eog NO_EOG and winner None.      *)
C8_GameOverIffOpponentStuck ==
  [][(state = IN_PLAY /\ MoveDone) =>
       LET opp == opposite_color(pieces[last'.path[1]].color)
       IN /\ (state' = GAME_OVER) <=> ~HasLegalMove(pieces', opp)
          /\ HasLegalMove(pieces', opp) =>
               (state' = IN_PLAY /\ eog' = NO_EOG /\ winner' = None)]_vars

(* C9 as claimed: after any successful make_a_move, the move that ends the *)
(* game included, turn is the color opposite to the piece that moved.      *)
C9_EveryMoveFlipsTurn ==
  [][MoveDone => turn' = opposite_color(pieces[last'.path[1]].color)]_vars

(* C9 as amended: a successful make_a_move that leaves the game IN_PLAY    *)
(* flips turn to the opponent of the mover; the move that ends the game    *)
(* leaves turn at the color of the piece that moved.                       *)
C9_TurnPassesUnlessGameEnds ==
  [][MoveDone =>
       LET mover == pieces[last'.path[1]].color
       IN /\ state' \in {IN_PLAY, GAME_OVER}
          /\ state' = IN_PLAY   => turn' = opposite_color(mover)
          /\ state' = GAME_OVER => turn' = mover]_vars

(* A move has ended the game and turn is still the color that moved. *)
C9_Witness ==
  /\ last.op = "make_a_move"
  /\ last.ok
  /\ state = GAME_OVER
  /\ turn = pieces[last.path[Len(last.path)]].color

(* C10: start leaves BLACK to move with move_num 1; a successful move that *)
(* keeps the game IN_PLAY leaves move_num unchanged when BLACK moved and   *)
(* adds exactly 1 when WHITE moved and the turn returns to BLACK.          *)
C10_MoveNumCountsRounds ==
  [][/\ (last'.op = "start" /\ last'.ok) => (turn' = BLACK /\ move_num' = 1)
     /\ (MoveDone /\ state' = IN_PLAY) =>
          LET mover  == pieces[last'.path[1]].color
              before == IF state = NOT_STARTED THEN 1 ELSE move_num
          IN /\ state = NOT_STARTED => mover = BLACK
             /\ mover = BLACK => (move_num' = before /\ turn' = WHITE)
             /\ mover = WHITE => (move_num' = before + 1 /\ turn' = BLACK)]_vars

(* From the standard setup black has played 9-14 as move 1 and white has   *)
(* answered 23-18: BLACK is to move and move_num is 2.                     *)
C10_Witness ==
  /\ last.op = "make_a_move"
  /\ last.ok
  /\ last.path = <<23, SIMPLE, 18>>
  /\ Len(history) >= 2
  /\ history[Len(history) - 1] = <<" ", "1", ".", " ", "9", "-", "1", "4">>
  /\ history[Len(history)] = <<"2", "3", "-", "1", "8">>
  /\ state = IN_PLAY
  /\ turn = BLACK
  /\ move_num = 2

(* The paths of three entries or more a caller may hand over whose origin  *)
(* holds a piece that is not of the color on turn.                         *)
OutOfTurnPaths ==
  { p \in MovePaths(pieces) :
      /\ Len(p) >= 3
      /\ p[1] \in DOMAIN pieces
      /\ pieces[p[1]].color # turn }

(* C11: every successful make_a_move moves a piece whose color is the      *)
(* value of turn just before the call, and while the game is IN_PLAY a     *)
(* path whose origin holds a piece of the other color fails with the       *)
(* wrong-turn error.                                                       *)
C11_OnlyThePlayerOnTurnMoves ==
  /\ [](state = IN_PLAY =>
          \A p \in OutOfTurnPaths :
             /\ ~make_a_move(G, p).ok
             /\ make_a_move(G, p).err = "wrong turn")
  /\ [][MoveDone => pieces[last'.path[1]].color = turn]_vars

(* A move has been made, the game goes on and the piece that moved, now    *)
(* out of turn, is offered a move of its own.                              *)
C11_Witness ==
  /\ last.op = "make_a_move"
  /\ last.ok
  /\ state = IN_PLAY
  /\ \E p \in OutOfTurnPaths :
       /\ p[1] = last.path[Len(last.path)]
       /\ p \in SeqRange(find_move_paths(pieces, p[1], FALSE).paths)

(* C12: once the state is GAME_OVER it stays GAME_OVER under every call    *)
(* but clear() and setup().                                                *)
C12_GameOverIsTerminal ==
  [][(state = GAME_OVER /\ last'.op \notin {"clear", "setup"}) =>
       state' = GAME_OVER]_vars

(* C13: start() while the game is IN_PLAY raises an error and leaves       *)
(* state, turn, move_num and history as they were.                         *)
C13_StartInPlayIsRejected ==
  [][(state = IN_PLAY /\ last'.op = "start") =>
       /\ ~last'.ok
       /\ UNCHANGED <<state, turn, move_num, history>>]_vars

(* The paths find_move_paths offers the pieces of the color on pcs. *)
OfferedTo(pcs, color) ==
  UNION { SeqRange(find_move_paths(pcs, r, FALSE).paths) :
          r \in {q \in DOMAIN pcs : pcs[q].color = color} }

BothColorsOnBoard ==
  numof_black_pieces(pieces) > 0 /\ numof_white_pieces(pieces) > 0

(* C14: while the game is NOT_STARTED, make_a_move fails and leaves the    *)
(* state NOT_STARTED and the board unchanged when a color has no piece on  *)
(* the board; when both colors are present every legal move of a BLACK     *)
(* piece is executed and the state leaves NOT_STARTED.                     *)
C14_AutoStart ==
  /\ []((state = NOT_STARTED /\ BothColorsOnBoard) =>
          \A p \in OfferedTo(pieces, BLACK) :
             /\ make_a_move(G, p).ok
             /\ make_a_move(G, p).g.state \in {IN_PLAY, GAME_OVER})
  /\ [][(state = NOT_STARTED /\ ~BothColorsOnBoard
           /\ last'.op = "make_a_move") =>
          (~last'.ok /\ state' = NOT_STARTED /\ pieces' = pieces)]_vars

(* C15: from IN_PLAY stop() gives state GAME_OVER, eog ABORT and winner    *)
(* None, and resign(c) gives state GAME_OVER, eog RESIGN and the color     *)
(* opposite to c as winner, whatever the board holds; both leave board,    *)
(* kur, turn and move_num unchanged.                                       *)
C15_StopAndResignEndTheGame ==
  [][state = IN_PLAY =>
       /\ last'.op = "stop" =>
            /\ state' = GAME_OVER /\ eog' = ABORT /\ winner' = None
            /\ UNCHANGED <<pieces, kur, turn, move_num>>
       /\ last'.op = "resign" =>
            /\ state' = GAME_OVER /\ eog' = RESIGN
            /\ winner' = (IF last'.path[1] = BLACK THEN WHITE ELSE BLACK)
            /\ UNCHANGED <<pieces, kur, turn, move_num>>]_vars

(* White has resigned a game that was in play after a first move: black    *)
(* has won.                                                                *)
C15_Witness ==
  /\ last = Call("resign", TRUE, <<WHITE>>)
  /\ Len(history) = 3
  /\ history[1] = <<"STARTED(t)">>
  /\ history[3] = <<"RESIGNED(", "white", ")">>
  /\ state = GAME_OVER
  /\ eog = RESIGN
  /\ winner = BLACK
  /\ turn = WHITE

(* The game fields clear() and setup() both reset, after the step. *)
ResetDone ==
  /\ state' = NOT_STARTED
  /\ kur'[BLACK] = << >> /\ kur'[WHITE] = << >>
  /\ history' = << >>
  /\ turn' = BLACK
  /\ eog' = NO_EOG
  /\ winner' = None

(* C16: from any state clear() gives state NOT_STARTED, an empty board,    *)
(* empty kur lists, an empty history, turn BLACK, eog NO_EOG and winner    *)
(* None; EnglishDraughts.setup() gives the same but for the board, which   *)
(* holds 12 black men on squares 1..12 (rows 0-2) and 12 white men on      *)
(* squares 21..32 (rows 5-7) and nothing else.                             *)
C16_ClearAndSetupReset ==
  [][/\ last'.op = "clear" => (ResetDone /\ DOMAIN pieces' = {})
     /\ last'.op = "setup" =>
          /\ ResetDone
          /\ DOMAIN pieces' = (1..12) \cup (21..32)
          /\ \A r \in 1..12 :
               /\ pieces'[r].color = BLACK /\ pieces'[r].caste = MAN
               /\ Row(r) \in 0..2
          /\ \A r \in 21..32 :
               /\ pieces'[r].color = WHITE /\ pieces'[r].caste = MAN
               /\ Row(r) \in 5..7]_vars

(* The board has been cleared: nothing is left of the game before. *)
C16_Witness ==
  /\ last.op = "clear"
  /\ state = NOT_STARTED
  /\ DOMAIN pieces = {}
  /\ history = << >>

(* The squares of board b the rules call dark: on the board, with row and  *)
(* column of different parity.                                             *)
OnBoard(b, row, col) == row \in 0..(b.size - 1) /\ col \in 0..(b.size - 1)
Light(row, col)      == (row % 2) = (col % 2)
DarkSquares(b) ==
  { rc \in (0..(b.size - 1)) \X (0..(b.size - 1)) : ~Light(rc[1], rc[2]) }

(* rc1 comes before rc2 when the board is read row by row. *)
RowMajorBefore(rc1, rc2) ==
  rc1[1] < rc2[1] \/ (rc1[1] = rc2[1] /\ rc1[2] < rc2[2])

(* C17: on a board of any even size rnum and rowcol are inverse            *)
(* bijections between the on-board dark squares and 1..size*size/2 in      *)
(* row-major order: rowcol(n) of a valid n is an on-board dark square that *)
(* rnum takes back to n, rnum(row,col) of an on-board dark square is       *)
(* a number of 1..rnum_max that rowcol takes back to (row,col), and of two *)
(* dark squares the one read first has the smaller number.                 *)
C17_RnumRowcolInverse ==
  /\ board.size % 2 = 0
  /\ board.rnum_max = (board.size * board.size) \div 2
  /\ (last.op = "rowcol" /\ last.path[1] \in 1..board.rnum_max) =>
        /\ ret.ok
        /\ ret.val \in DarkSquares(board)
        /\ CheckersBoard_rnum(board, ret.val[1], ret.val[2]) = Ok(last.path[1])
  /\ (last.op = "rnum" /\ <<last.path[1], last.path[2]>> \in DarkSquares(board)) =>
        /\ ret.ok
        /\ ret.val \in 1..board.rnum_max
        /\ CheckersBoard_rowcol(board, ret.val) = Ok(<<last.path[1], last.path[2]>>)
        /\ \A rc \in DarkSquares(board) :
              RowMajorBefore(rc, last.path) =>
                 CheckersBoard_rnum(board, rc[1], rc[2]).val < ret.val

(* The last square of a board of size 10 converted to its number. *)
C17_Witness ==
  /\ board.size = 10
  /\ last = Call("rnum", TRUE, <<9, 8>>)
  /\ ret = Ok(50)

(* C18: rowcol(n) raises CheckersError for every n < 1 and every           *)
(* n > rnum_max, and rnum(row,col) raises CheckersError for every          *)
(* off-board (row,col) and every on-board light square; neither returns    *)
(* a value for such input.                                                 *)
C18_InvalidCoordinatesRejected ==
  /\ (last.op = "rowcol"
        /\ (last.path[1] < 1 \/ last.path[1] > (board.size * board.size) \div 2)) =>
        (~ret.ok /\ ~last.ok)
  /\ (last.op = "rnum"
        /\ (\/ ~OnBoard(board, last.path[1], last.path[2])
            \/ Light(last.path[1], last.path[2]))) =>
        (~ret.ok /\ ~last.ok)

(* The on-board light square (7,7) of the standard board is refused. *)
C18_Witness ==
  /\ board.size = 8
  /\ last = Call("rnum", FALSE, <<7, 7>>)
  /\ ret = Raise("not a reachable square")

(* C19: for every move path built from valid rnums of the board, squares   *)
(* of two digits such as 10 and 30 included, and the operators '-' and     *)
(* 'x', nota_to_path(path_to_nota(path)) is the path.                      *)
C19_NotationRoundTrips ==
  last.op = "path_to_nota" => nota_to_path(ret.val) = Ok(last.path)

(* A character that is no digit, no move operator, no space and no tab. *)
HasUnexpectedChar(nota) ==
  \E i \in DOMAIN nota :
     nota[i] \notin (SeqRange(Digits) \cup MOP_chars \cup SKIP_chars)

(* C20: nota_to_path reports malformed notation as CheckersError and as no *)
(* other kind of error: a notation with an unexpected character is         *)
(* refused, and whenever nota_to_path refuses a notation (unexpected       *)
(* character, token of the wrong type, even token count) the exception is  *)
(* a CheckersError.                                                        *)
C20_MalformedNotationIsCheckersError ==
  last.op = "nota_to_path" =>
     /\ HasUnexpectedChar(last.path) => ~ret.ok
     /\ ~ret.ok => "exc" \notin DOMAIN ret

(* The squares asked about: every square of the board and a number beyond  *)
(* each end of it.                                                         *)
AskedSquares == (rnum_min - 1)..(rnum_max + 1)

(* C21: for every board content and every square rnum, has_a_move(rnum) is *)
(* true if and only if take_a_peek(rnum) (find_move_paths with jumps_only  *)
(* false) returns at least one path; for an empty square has_a_move is     *)
(* false and take_a_peek returns no path.                                  *)
C21_HasAMoveAgreesWithSearch ==
  \A rn \in AskedSquares :
     /\ ~take_a_peek(G, rn).raised
     /\ has_a_move(pieces, rn) <=> Len(take_a_peek(G, rn).paths) > 0
     /\ rn \notin DOMAIN pieces =>
           (~has_a_move(pieces, rn) /\ take_a_peek(G, rn).paths = << >>)

(* A peek has been made on a board with a piece whose only move is a jump, *)
(* a piece that cannot move at all and a piece that has a simple move.     *)
C21_Witness ==
  /\ last.op = "find_move_paths"
  /\ \E r \in DOMAIN pieces :
       /\ has_a_move(pieces, r)
       /\ \A p \in SeqRange(take_a_peek(G, r).paths) : p[2] = JUMP
  /\ \E r \in DOMAIN pieces : ~has_a_move(pieces, r)
  /\ \E r \in DOMAIN pieces :
       \E p \in SeqRange(take_a_peek(G, r).paths) : p[2] = SIMPLE

(* Square b is one (n = 1) or two (n = 2) diagonal steps from square r in  *)
(* a direction of the move pattern of the piece on r.                      *)
InPattern(pcs, r, b, n) ==
  LET dr == Row(b) - Row(r)
      dc == Col2(b) - Col2(r)
  IN /\ dr \in {-n, n} /\ dc \in {-2 * n, 2 * n}
     /\ \/ pcs[r].caste = KING
        \/ (pcs[r].color = BLACK /\ dr > 0)
        \/ (pcs[r].color = WHITE /\ dr < 0)

(* The empty squares next to r in the move pattern of its piece. *)
StepTargets(pcs, r) ==
  { b \in Squares : b \notin DOMAIN pcs /\ InPattern(pcs, r, b, 1) }

(* The empty squares the piece on r reaches by one jump over an opposing   *)
(* piece.                                                                  *)
JumpTargets(pcs, r) ==
  { b \in Squares :
      /\ b \notin DOMAIN pcs
      /\ InPattern(pcs, r, b, 2)
      /\ Between(r, b) \in DOMAIN pcs
      /\ pcs[Between(r, b)].color # pcs[r].color }

(* The color has a jump somewhere on the board. *)
JumpAvailable(pcs, color) ==
  \E q \in DOMAIN pcs : pcs[q].color = color /\ JumpTargets(pcs, q) # {}

(* C22: captures are not forced.  When a piece has an empty adjacent       *)
(* square in one direction of its move pattern and a capturable opposing   *)
(* piece in another, find_move_paths returns both the SIMPLE path and the  *)
(* JUMP path for its square; and make_a_move accepts a SIMPLE path of the  *)
(* player on turn even though a jump is available, from that square or     *)
(* from any other piece of the mover.                                      *)
C22_CapturesAreNotForced ==
  /\ \A r \in DOMAIN pieces :
        (StepTargets(pieces, r) # {} /\ JumpTargets(pieces, r) # {}) =>
           /\ \A a \in StepTargets(pieces, r) :
                 InPaths(<<r, SIMPLE, a>>, take_a_peek(G, r).paths)
           /\ \A j \in JumpTargets(pieces, r) :
                 InPaths(<<r, JUMP, j>>, take_a_peek(G, r).paths)
  /\ (state \in {NOT_STARTED, IN_PLAY} /\ JumpAvailable(pieces, turn)) =>
        \A r \in DOMAIN pieces : \A a \in StepTargets(pieces, r) :
           pieces[r].color = turn => make_a_move(G, <<r, SIMPLE, a>>).ok

(* A simple move has been made by a piece that had a jump from the square  *)
(* it left: with the piece put back there, the jump is there again.        *)
C22_Witness ==
  /\ last.op = "make_a_move" /\ last.ok
  /\ Len(last.path) = 3 /\ last.path[2] = SIMPLE
  /\ JumpTargets(Put(Pop(pieces, last.path[3]), last.path[1],
                     pieces[last.path[3]]), last.path[1]) # {}

(* C23: after a successful make_a_move(path) the piece that was on path[0] *)
(* (same color and ident) is on the final landing square path[-1], path[0] *)
(* is empty, and every piece that was neither the mover nor captured is on *)
(* the same square with the same caste as before the move.                 *)
C23_MoveFrame ==
  [][MoveDone =>
       LET path   == last'.path
           from   == path[1]
           to     == path[Len(path)]
           jumped == SeqRange(JumpedOver(path))
       IN /\ to \in DOMAIN pieces'
          /\ pieces'[to].color = pieces[from].color
          /\ pieces'[to].ident = pieces[from].ident
          /\ from \notin DOMAIN pieces'
          /\ \A r \in DOMAIN pieces \ ({from} \cup jumped) :
                /\ r \in DOMAIN pieces'
                /\ pieces'[r] = pieces[r]]_vars

(* A jump has been made on a board where pieces of both colors stand by:   *)
(* the mover is on its landing square, a captured piece is in kur, and a   *)
(* piece of each color is on the square it was created on.                 *)
C23_Witness ==
  /\ last.op = "make_a_move" /\ last.ok
  /\ last.path[2] = JUMP
  /\ pieces[last.path[Len(last.path)]].ident = last.path[1]
  /\ \E r, q \in DOMAIN pieces \ {last.path[Len(last.path)]} :
        /\ pieces[r].color = BLACK /\ pieces[r].ident = r
        /\ pieces[q].color = WHITE /\ pieces[q].ident = q

(* Board pcs2 is board pcs1 without whatever stands on square n. *)
SameBut(pcs1, pcs2, n) ==
  /\ DOMAIN pcs2 \ {n} = DOMAIN pcs1 \ {n}
  /\ \A q \in DOMAIN pcs1 \ {n} : pcs2[q] = pcs1[q]

(* C24: remove_piece(r) fails on an empty square and otherwise returns the *)
(* piece and empties r; replace_piece(r, p) fails on an occupied square    *)
(* and otherwise puts p on r; replace_piece(r, remove_piece(r)) restores   *)
(* the board content exactly; a failing call of either leaves the board    *)
(* unchanged.                                                              *)
C24_RemoveAndReplaceAreInverse ==
  /\ [](\A r \in DOMAIN pieces :
          replace_piece(remove_piece(pieces, r).pieces, r,
                        remove_piece(pieces, r).piece) = Done(pieces))
  /\ [][/\ last'.op = "remove_piece" =>
             LET n == last'.path[1]
             IN /\ last'.ok <=> n \in DOMAIN pieces
                /\ last'.ok => /\ ret' = Ok(pieces[n])
                               /\ n \notin DOMAIN pieces'
                               /\ SameBut(pieces, pieces', n)
                /\ ~last'.ok => pieces' = pieces
        /\ last'.op = "replace_piece" =>
             LET n == last'.path[1]
             IN /\ n \in Squares => (last'.ok <=> n \notin DOMAIN pieces)
                /\ last'.ok => /\ n \in DOMAIN pieces'
                               /\ pieces'[n] = ret.val
                               /\ SameBut(pieces, pieces', n)
                /\ ~last'.ok => pieces' = pieces
                /\ n = last.path[1] =>
                      /\ last'.ok
                      /\ pieces' = [q \in DOMAIN pieces \cup {n} |->
                                      IF q = n THEN ret.val ELSE pieces[q]]]_vars

(* A piece taken off a board that holds other pieces is back on the square *)
(* it was created on.                                                      *)
C24_Witness ==
  /\ last.op = "replace_piece" /\ last.ok
  /\ ret.ok
  /\ pieces[last.path[1]] = ret.val
  /\ ret.val.ident = last.path[1]
  /\ Cardinality(DOMAIN pieces) >= 3

(* The lists of disks on the three pegs. *)
DisksOn(p) == [k \in 1..3 |-> p[k].disks]

(* C25: for a TowerOfHanoi created with n >= 1 disks on peg A and pegs B   *)
(* and C empty, solve() terminates with all n disks on peg B in their      *)
(* original top-to-bottom order and with pegs A and C empty; with n = 0 it *)
(* returns too and makes no move.                                          *)
C25_SolveReachesGoal ==
  \A disks \in DiskLists :
     DisksOn(pegs) = <<disks, << >>, << >>>> =>
        /\ <>(phase = "returned")
        /\ [](phase = "returned" => DisksOn(pegs) = << << >>, disks, << >> >>)
        /\ disks = << >> => [](numOfMoves = 0 /\ DisksOn(pegs) = << << >>, << >>, << >> >>)

(* solve() has returned with the five disks of odds on peg B. *)
C25_Witness ==
  /\ phase = "returned"
  /\ DisksOn(pegs) = << << >>, PegAOdds, << >> >>
  /\ numOfMoves = 31

(* The disks of a list grow from top to bottom. *)
Ascending(disks) ==
  \A i \in 1..(Len(disks) - 1) : disks[i] < disks[i + 1]

(* Exactly one disk goes from the top of one peg to the top of another. *)
OneDiskMoves ==
  \E s, d \in 1..3 :
     /\ s # d
     /\ pegs[s].disks # << >>
     /\ pegs'[s].disks = Tail(pegs[s].disks)
     /\ pegs'[d].disks = <<Head(pegs[s].disks)>> \o pegs[d].disks
     /\ \A k \in 1..3 \ {s, d} : pegs'[k].disks = pegs[k].disks

(* C26: starting from disks in ascending size order (top to bottom) on peg *)
(* A, every step of solve() that moves anything moves exactly one disk,    *)
(* taken from the top of one peg and placed on top of a different peg; in  *)
(* every state no peg holds a larger disk above a smaller one; the set of  *)
(* disks over the three pegs never changes.                                *)
C26_HanoiRules ==
  /\ \A disks \in DiskLists :
        (DisksOn(pegs) = <<disks, << >>, << >>>> /\ Ascending(disks)) =>
           [](/\ \A k \in 1..3 : Ascending(pegs[k].disks)
              /\ UNION { SeqRange(pegs[k].disks) : k \in 1..3 } = SeqRange(disks)
              /\ Len(pegs[1].disks) + Len(pegs[2].disks) + Len(pegs[3].disks)
                   = Len(disks))
  /\ [][(DisksOn(pegs') # DisksOn(pegs) \/ numOfMoves' > numOfMoves)
          => OneDiskMoves]_vars

(* In the middle of solve() every peg holds a disk. *)
C26_Witness ==
  /\ phase = "solving"
  /\ numOfMoves >= 3
  /\ \A k \in 1..3 : pegs[k].disks # << >>

C28_OfferedPathsAreAccepted ==
  state = IN_PLAY =>
    \A r \in { q \in DOMAIN pieces : pieces[q].color = turn } :
      \A p \in SeqRange(take_a_peek(G, r).paths) : make_a_move(G, p).ok

(* The paths of one segment among those find_move_paths returns. *)
FirstLevel(pcs, r, jumps_only) ==
  { p \in SeqRange(find_move_paths(pcs, r, jumps_only).paths) : Len(p) = 3 }

(* C29: first-level move generation is exact.  For every board and every   *)
(* square r the one-segment paths find_move_paths returns are exactly      *)
(* [r,'-',a] for each empty on-board square a next to r in a direction of  *)
(* the piece's move pattern, plus [r,'x',j] for each direction in which    *)
(* the next square holds an opposing piece and the square j behind it is   *)
(* on board and empty; with jumps_only the SIMPLE paths are left out; a    *)
(* friendly neighbour or an occupied landing square gives no path; an      *)
(* empty or off-board r gives no path at all.                              *)
C29_FirstLevelExact ==
  \A r \in AskedSquares, jumps_only \in BOOLEAN :
     FirstLevel(pieces, r, jumps_only) =
       IF r \notin DOMAIN pieces THEN {}
       ELSE (IF jumps_only THEN {}
             ELSE { <<r, SIMPLE, a>> : a \in StepTargets(pieces, r) })
            \cup { <<r, JUMP, j>> : j \in JumpTargets(pieces, r) }

(* An opposing piece stands next to r in a direction of its pattern and    *)
(* the square behind it is occupied.                                       *)
BlockedJump(pcs, r) ==
  \E b \in DOMAIN pcs :
     /\ InPattern(pcs, r, b, 2)
     /\ Between(r, b) \in DOMAIN pcs
     /\ pcs[Between(r, b)].color # pcs[r].color

(* A search has been made on a board where one piece has both a step and   *)
(* a jump, and one piece has an opposing neighbour it cannot jump.         *)
C29_Witness ==
  /\ last.op = "find_move_paths"
  /\ \E r \in DOMAIN pieces :
        StepTargets(pieces, r) # {} /\ JumpTargets(pieces, r) # {}
  /\ \E r \in DOMAIN pieces : BlockedJump(pieces, r)

(* The board while the search follows the jump of the man on r to the      *)
(* square j of its king's row: the man stands on j as a king and the piece *)
(* it jumped is off the board.                                             *)
CrownedAt(pcs, r, j) ==
  Put(Pop(Pop(pcs, r), Between(r, j)), j, [pcs[r] EXCEPT !.caste = KING])

(* The first jumps of the man on r that land on its king's row. *)
CrowningJumps(pcs, r) ==
  { j \in JumpTargets(pcs, r) : Row(j) = CrownRow(pcs[r].color) }

(* C30: simulated promotion extends chains.  When the jump of a MAN lands  *)
(* on its king's row, find_move_paths goes on from the landing square as a *)
(* KING: the paths it returns include the continuation jump to every       *)
(* square a king on the landing square can jump to, in any of the four     *)
(* diagonal directions; and after the search the piece is a MAN again on   *)
(* its original square.                                                    *)
C30_SimulatedPromotionExtendsChains ==
  \A r \in { q \in DOMAIN pieces : pieces[q].caste = MAN } :
    \A jumps_only \in BOOLEAN :
      /\ find_move_paths(pieces, r, jumps_only).pieces[r] = pieces[r]
      /\ \A j \in CrowningJumps(pieces, r) :
           \A k \in JumpTargets(CrownedAt(pieces, r, j), j) :
              InPaths(<<r, JUMP, j, JUMP, k>>,
                      find_move_paths(pieces, r, jumps_only).paths)

(* A search has been made on a board where a man has a jump onto its       *)
(* king's row and, crowned there, a second jump that leads away from that  *)
(* row, against the forward direction of a man of its color.               *)
C30_Witness ==
  /\ last.op = "find_move_paths"
  /\ \E r \in { q \in DOMAIN pieces : pieces[q].caste = MAN } :
        \E j \in CrowningJumps(pieces, r) :
           \E k \in JumpTargets(CrownedAt(pieces, r, j), j) :
              ~Forward(pieces[r].color, <<r, JUMP, j, JUMP, k>>, 2)

(* Squares a and b are exactly one diagonal jump apart: two rows and two   *)
(* columns.                                                                *)
JumpApart(a, b) ==
  /\ a \in Squares /\ b \in Squares
  /\ Row(b) - Row(a) \in {-2, 2}
  /\ Col2(b) - Col2(a) \in {-4, 4}

(* C31: jumped_square(from, to) fails whenever the two squares are not     *)
(* exactly a diagonal jump apart, the same square given twice, adjacent    *)
(* squares and distant squares included: it returns no square for such a   *)
(* pair.                                                                   *)
C31_JumpedSquareFailsUnlessJumpApart ==
  (last.op = "jumped_square" /\ ~JumpApart(last.path[1], last.path[2]))
    => ~last.ok

(* Path p, returned for square r, is well formed: it starts with r, has an *)
(* odd length of 3 or more, holds squares of the board at its odd places   *)
(* and move operators at its even places, holds a SIMPLE operator only     *)
(* when its length is 3, and each of its JUMP segments joins two squares   *)
(* a diagonal jump apart.                                                  *)
WellFormed(r, p) ==
  /\ Len(p) >= 3 /\ Len(p) % 2 = 1
  /\ p[1] = r
  /\ \A i \in 0..NumSegments(p) : p[2 * i + 1] \in Squares
  /\ \A i \in 1..NumSegments(p) :
        /\ Mop(p, i) \in {SIMPLE, JUMP}
        /\ Mop(p, i) = SIMPLE => Len(p) = 3
        /\ Mop(p, i) = JUMP => JumpApart(Source(p, i), Landing(p, i))

(* C32: every path find_move_paths returns for a square r is well formed:  *)
(* it starts with r, has odd length >= 3, alternates reachable numbers     *)
(* with operators from {'-','x'}, has a SIMPLE operator only in a path of  *)
(* length 3, consists of JUMP segments only when it is longer, and each    *)
(* JUMP segment joins two squares exactly two diagonal steps apart.        *)
C32_PathsAreWellFormed ==
  \A r \in AskedSquares, jumps_only \in BOOLEAN :
     \A p \in SeqRange(find_move_paths(pieces, r, jumps_only).paths) :
        WellFormed(r, p)

(* A search has been made on a board where one piece is offered a simple   *)
(* move and a chain of three jumps or more.                                *)
C32_Witness ==
  /\ last.op = "find_move_paths"
  /\ \E r \in DOMAIN pieces :
        /\ \E p \in SeqRange(take_a_peek(G, r).paths) : p[2] = SIMPLE
        /\ \E p \in SeqRange(take_a_peek(G, r).paths) : NumSegments(p) >= 3

(* C33: the candidate set is prefix-closed for jump chains.  For every     *)
(* path of two or more JUMP segments that find_move_paths returns, each    *)
(* shorter prefix ending on a landing square (length 3, 5, ...) is         *)
(* returned too, and make_a_move accepts it from the player on turn: a     *)
(* jump chain may be stopped before it is exhausted.                       *)
C33_JumpChainsArePrefixClosed ==
  \A r \in DOMAIN pieces, jumps_only \in BOOLEAN :
     \A p \in SeqRange(find_move_paths(pieces, r, jumps_only).paths) :
        \A n \in 1..(NumSegments(p) - 1) :
           /\ InPaths(SubSeq(p, 1, 2 * n + 1),
                      find_move_paths(pieces, r, jumps_only).paths)
           /\ (state = IN_PLAY /\ pieces[r].color = turn) =>
                 make_a_move(G, SubSeq(p, 1, 2 * n + 1)).ok

(* A chain of three jumps or more was offered to the piece that moved      *)
(* last, and the move made was the first jump of that chain alone.         *)
C33_Witness ==
  /\ last.op = "make_a_move" /\ last.ok
  /\ Len(last.path) = 3 /\ last.path[2] = JUMP
  /\ \E c \in Color :
        Len(kur[c]) = 1 /\
        \E p \in SeqRange(find_move_paths(
                   Put(Put(Pop(pieces, last.path[3]), last.path[1],
                           pieces[last.path[3]]),
                       Between(last.path[1], last.path[3]), kur[c][1]),
                   last.path[1], TRUE).paths) :
           NumSegments(p) >= 3 /\ SubSeq(p, 1, 3) = last.path

(* The number of JUMP segments of a path. *)
NumJumps(p) == Cardinality({ i \in 1..NumSegments(p) : Mop(p, i) = JUMP })

(* The pieces on the board that oppose the piece on r. *)
Opposing(pcs, r) == { q \in DOMAIN pcs : pcs[q].color # pcs[r].color }

(* C34: find_move_paths terminates on every board.  The search returns     *)
(* without raising, and since each nested simulation level has one         *)
(* opposing piece fewer on the board, no returned path has more JUMP       *)
(* segments (levels of recursion) than there are opposing pieces on the    *)
(* board at the time of the call.                                          *)
C34_SearchDepthIsBounded ==
  \A r \in AskedSquares, jumps_only \in BOOLEAN :
     /\ ~find_move_paths(pieces, r, jumps_only).raised
     /\ \A p \in SeqRange(find_move_paths(pieces, r, jumps_only).paths) :
           NumJumps(p) <= Cardinality(Opposing(pieces, r))

(* A search has been made on a board where a piece has a chain that jumps  *)
(* every one of four opposing pieces: the bound is met.                    *)
C34_Witness ==
  /\ last.op = "find_move_paths"
  /\ \E r \in DOMAIN pieces :
        /\ Cardinality(Opposing(pieces, r)) >= 4
        /\ \E p \in SeqRange(take_a_peek(G, r).paths) :
              NumJumps(p) = Cardinality(Opposing(pieces, r))

(* C35: within any single path find_move_paths returns, the squares jumped *)
(* over by its JUMP segments are pairwise distinct and each held an        *)
(* opposing piece on the board on which the search was called: no piece is *)
(* jumped twice and no own piece is ever jumped.                           *)
C35_JumpedPiecesAreDistinctFoes ==
  \A r \in DOMAIN pieces, jumps_only \in BOOLEAN :
     \A p \in { q \in SeqRange(find_move_paths(pieces, r, jumps_only).paths) :
                  q[2] = JUMP } :
        /\ \A i \in 1..Len(JumpedOver(p)) :
              /\ JumpedOver(p)[i] \in DOMAIN pieces
              /\ pieces[JumpedOver(p)[i]].color # pieces[r].color
        /\ \A i \in 1..Len(JumpedOver(p)), j \in 1..Len(JumpedOver(p)) :
              i # j => JumpedOver(p)[i] # JumpedOver(p)[j]

(* A search has been made on a board where a piece is offered a chain that *)
(* comes back to the square it started from: a landing square is visited   *)
(* again, a jumped square is not.                                          *)
C35_Witness ==
  /\ last.op = "find_move_paths"
  /\ \E r \in DOMAIN pieces :
        \E p \in SeqRange(take_a_peek(G, r).paths) :
           p[2] = JUMP /\ Len(JumpedOver(p)) >= 2 /\ p[Len(p)] = r

(* The pieces of one color on a board, and the idents of all the pieces of *)
(* a game, on the board and in kur.                                        *)
ColorSquares(pcs, c) == { r \in DOMAIN pcs : pcs[r].color = c }
BoardIdents(pcs) == { pcs[r].ident : r \in DOMAIN pcs }
KurIdents(k) == UNION { { k[c][i].ident : i \in 1..Len(k[c]) } : c \in Color }
Population(pcs, k, c) == Cardinality(ColorSquares(pcs, c)) + Len(k[c])

(* kur[c] holds pieces of color c only, no ident is both on the board and  *)
(* in kur, and the idents on the board and in kur are pairwise distinct.   *)
SoundPieces(pcs, k) ==
  /\ \A c \in Color : \A i \in 1..Len(k[c]) : k[c][i].color = c
  /\ BoardIdents(pcs) \cap KurIdents(k) = {}
  /\ Cardinality(BoardIdents(pcs) \cup KurIdents(k))
       = Cardinality(DOMAIN pcs) + Len(k[BLACK]) + Len(k[WHITE])

(* C36: make_a_move (successful or not), stop and resign conserve the      *)
(* pieces: for each color the number of its pieces on the board plus the   *)
(* length of its kur list is the same after the call, the kur list only    *)
(* grows at its end, and when kur held pieces of its own color only and    *)
(* the idents on the board and in kur were pairwise distinct before the    *)
(* call, they are so after it.                                             *)
C36_PiecesAreConserved ==
  [][last'.op \in {"make_a_move", "stop", "resign"} =>
       /\ \A c \in Color :
             /\ Population(pieces', kur', c) = Population(pieces, kur, c)
             /\ Len(kur'[c]) >= Len(kur[c])
             /\ SubSeq(kur'[c], 1, Len(kur[c])) = kur[c]
       /\ SoundPieces(pieces, kur) => SoundPieces(pieces', kur')]_vars

(* A game in which a white piece was captured has been resigned, with      *)
(* pieces of both colors left on the board.                                *)
C36_Witness ==
  /\ last.op = "resign"
  /\ last.ok
  /\ SoundPieces(pieces, kur)
  /\ Len(kur[WHITE]) >= 1
  /\ \A c \in Color : ColorSquares(pieces, c) # {}

(* C37: in every state reached through clear, setup, start, make_a_move,   *)
(* stop and resign, eog is NO_EOG exactly when the state is not GAME_OVER, *)
(* and winner is set only when the state is GAME_OVER with eog RESIGN or   *)
(* DEFEAT.                                                                 *)
C37_StateEogWinnerConsistent ==
  /\ (eog = NO_EOG) <=> (state # GAME_OVER)
  /\ winner # None => (state = GAME_OVER /\ eog \in {RESIGN, DEFEAT})

(* The entries add_event_to_history writes when a move ends the game, and  *)
(* the entries that record a move: its notation, behind the move number    *)
(* when black moved.                                                       *)
EndEvents ==
  {<<"DRAW">>} \cup { <<"DEFEATED(", lower(c), ")">> : c \in Color }
MoveEntry(e, path) ==
  LET nota == path_to_nota(path)
  IN /\ \E i \in 1..Len(e) : e[i] \in {SIMPLE, JUMP}
     /\ Len(e) >= Len(nota)
     /\ SubSeq(e, Len(e) - Len(nota) + 1, Len(e)) = nota
     /\ Len(e) > Len(nota) => (e[1] = " " /\ e[Len(e) - Len(nota)] = " ")

RECURSIVE TwoToThe(_)

TwoToThe(n) == IF n = 0 THEN 1 ELSE 2 * TwoToThe(n - 1)

(* The disks of the tower, on whatever peg they are. *)
NumDisks == Len(pegs[1].disks) + Len(pegs[2].disks) + Len(pegs[3].disks)

(* C39: solve() on n >= 1 disks of peg A starts its count at 0, counts 1   *)
(* for every step that moves a disk, which moves one disk only, and counts *)
(* nothing for the other steps; when it has returned numOfMoves is         *)
(* 2^n - 1.                                                                *)
C39_SolveMakesTwoToTheNMinusOneMoves ==
  /\ []((phase = "returned" /\ NumDisks >= 1) =>
          numOfMoves = TwoToThe(NumDisks) - 1)
  /\ [][/\ (phase # "solving" /\ phase' = "solving") =>
             (numOfMoves' = 0 /\ DisksOn(pegs') = DisksOn(pegs))
        /\ phase = "solving" =>
             IF DisksOn(pegs') # DisksOn(pegs)
               THEN OneDiskMoves /\ numOfMoves' = numOfMoves + 1
             ELSE numOfMoves' = numOfMoves]_vars

(* solve() has returned from a tower of three disks after seven moves. *)
C39_Witness ==
  /\ phase = "returned"
  /\ NumDisks = 3
  /\ pegs[1].disks = << >>
  /\ numOfMoves = 7

====
